---------------------------- MODULE Spec2Model ----------------------------
(***************************************************************************)
(* A model of the resume screener front end: the screenerAPI module        *)
(* (validateFile, predictFromText, callHuggingFaceAPI, the heuristic       *)
(* analysis behind getResumeImprovements) and the ResumeForm component     *)
(* that drives it.  Strings are TLA+ strings, read character by character  *)
(* with SubSeq, so that trimming, whitespace normalisation, lower-casing   *)
(* and the regular expressions of the source are computed, not assumed.    *)
(***************************************************************************)
EXTENDS Integers, Sequences, FiniteSets, Bags, TLC

VARIABLES
  \* validateFile, applied to one file
  vFile, vPc, vResult,
  \* predictFromText, applied to one text: the requests it has issued to the
  \* prediction endpoint (their payloads), what the fetch settled to (the
  \* response) and what the promise settled to
  pText, pPc, pFetches, pResponse, pOutcome,
  \* getResumeImprovements, applied to one text and role: where
  \* performNLPAnalysis stands, its analysisResults, what each
  \* callHuggingFaceAPI returned, the report returned at the end and the
  \* locals of analyzeResumeContextually it was built from
  aResumeText, aPredictedRole, aPc, analysisResults, hfReturns, aReport, aLocals,
  \* the callHuggingFaceAPI in progress: its position, its loop counter, what
  \* it has requested, received and waited so far, and its return value
  hfPc, attempt, hfLog, hfResult,
  \* ResumeForm: its state hooks (uiText is the hook named text), the
  \* submissions that are waiting for a promise, the payloads sent to the
  \* prediction endpoint, the number of submissions started so far and what
  \* ran last: "input" (a hook set by typing or by a tab button),
  \* "handleTextSubmit", "onDrop" or "settled" (the continuation of an await)
  uiText, result, confidence, loading, analyzingImprovements, error, activeTab, aiAnalysis,
  uploadedFileName, submissions, predictRequests, started, lastEvent

validateVars == <<vFile, vPc, vResult>>
predictVars == <<pText, pPc, pFetches, pResponse, pOutcome>>
analysisVars == <<aResumeText, aPredictedRole, aPc, analysisResults, hfReturns, aReport, aLocals>>
hfVars == <<hfPc, attempt, hfLog, hfResult>>
hooks ==
  <<uiText, result, confidence, loading, analyzingImprovements, error, activeTab, aiAnalysis,
    uploadedFileName>>
uiVars == <<hooks, submissions, predictRequests, started, lastEvent>>
vars == <<validateVars, predictVars, analysisVars, hfVars, uiVars>>

\* What an action of one part leaves alone: the variables of the other parts.
notValidate == <<predictVars, analysisVars, hfVars, uiVars>>
notPredict == <<validateVars, analysisVars, hfVars, uiVars>>
notAnalysis == <<validateVars, predictVars, uiVars>>
notUi == <<validateVars, predictVars, analysisVars, hfVars>>

-----------------------------------------------------------------------------
(* Strings *)

Ch(s, i) == SubSeq(s, i, i)

UpperAlpha == "ABCDEFGHIJKLMNOPQRSTUVWXYZ"
LowerAlpha == "abcdefghijklmnopqrstuvwxyz"
Digits == "0123456789"

InString(c, s) == \E k \in 1..Len(s) : Ch(s, k) = c

\* The characters of a string, as a set
CharsOf(s) == {Ch(s, k) : k \in 1..Len(s)}
UpperChars == CharsOf(UpperAlpha)
DigitChars == CharsOf(Digits)
WordChars == CharsOf(UpperAlpha) \cup CharsOf(LowerAlpha) \cup CharsOf(Digits) \cup {"_"}
LowerOf == [c \in UpperChars |-> Ch(LowerAlpha, CHOOSE k \in 1..26 : Ch(UpperAlpha, k) = c)]

\* The whitespace characters the texts of this model use (a subset of \s).
IsSpace(c) == c \in {" ", "\t", "\n"}
IsDigit(c) == c \in DigitChars
\* \w of a JavaScript regular expression
IsWordChar(c) == c \in WordChars

ToLowerChar(c) == IF c \in UpperChars THEN LowerOf[c] ELSE c

RECURSIVE LowerRange(_, _, _)
LowerRange(s, lo, hi) ==
  IF lo > hi THEN ""
  ELSE IF lo = hi THEN ToLowerChar(Ch(s, lo))
  ELSE LET mid == (lo + hi) \div 2
       IN LowerRange(s, lo, mid) \o LowerRange(s, mid + 1, hi)

\* String.prototype.toLowerCase
ToLowerCase(s) == LowerRange(s, 1, Len(s))

\* String.prototype.endsWith
EndsWith(s, suffix) ==
  Len(s) >= Len(suffix) /\ SubSeq(s, Len(s) - Len(suffix) + 1, Len(s)) = suffix

\* s has p at position i
HasAt(s, i, p) == i >= 1 /\ i + Len(p) - 1 <= Len(s) /\ SubSeq(s, i, i + Len(p) - 1) = p

\* String.prototype.includes
Includes(s, p) == \E i \in 1..(Len(s) - Len(p) + 1) : HasAt(s, i, p)

RECURSIVE Rep(_, _)
\* String.prototype.repeat, used to write the long texts of the input sets
Rep(c, n) ==
  IF n = 0 THEN ""
  ELSE IF n = 1 THEN c
  ELSE LET h == Rep(c, n \div 2) IN h \o h \o (IF n % 2 = 1 THEN c ELSE "")

\* undefined / null of the source
Null == "<null>"

-----------------------------------------------------------------------------
(* Regular expressions *)

Min(S) == CHOOSE x \in S : \A y \in S : x <= y

\* The character classes of the source's patterns: \s, \d, [\w-], [\d,], the
\* dot (any character but a line break), [^.] and the one- or two-letter
\* classes [d], [s], [ed].
InClass(c, class) ==
  CASE class = "\\s" -> IsSpace(c)
    [] class = "\\d" -> IsDigit(c)
    [] class = "\\w-" -> IsWordChar(c) \/ c = "-"
    [] class = "\\d," -> IsDigit(c) \/ c = ","
    [] class = "[^\\n]" -> Len(c) = 1 /\ c # "\n"
    [] class = "[^.]" -> Len(c) = 1 /\ c # "."
    [] OTHER -> Len(c) = 1 /\ InString(c, class)

RECURSIVE RunEnd(_, _, _)
\* The first position from i on whose character is not of the class
RunEnd(t, i, class) ==
  IF i > Len(t) \/ ~InClass(Ch(t, i), class) THEN i ELSE RunEnd(t, i + 1, class)

\* The number of characters of the class that the text has from position i on
RunLength(t, i, class) == RunEnd(t, i, class) - i

\* \b between the characters i-1 and i
WordBoundaryAt(t, i) ==
  LET before == i >= 2 /\ i - 1 <= Len(t) /\ IsWordChar(Ch(t, i - 1))
      after == i >= 1 /\ i <= Len(t) /\ IsWordChar(Ch(t, i))
  IN before # after

\* The items a pattern is a sequence of
Lit(s) == [t |-> "lit", s |-> s]
Star(class) == [t |-> "star", s |-> class]
Plus(class) == [t |-> "plus", s |-> class]
Opt(class) == [t |-> "opt", s |-> class]
WordBoundary == [t |-> "wb", s |-> ""]

RECURSIVE MatchAt(_, _, _, _)
\* The items k.. of the pattern match the text from position i on.  A
\* quantified class may take any number of characters its run allows, as
\* backtracking does.
MatchAt(t, i, pat, k) ==
  IF k > Len(pat) THEN TRUE
  ELSE LET item == pat[k]
       IN CASE item.t = "lit" ->
                 HasAt(t, i, item.s) /\ MatchAt(t, i + Len(item.s), pat, k + 1)
            [] item.t = "star" ->
                 \E n \in 0..RunLength(t, i, item.s) : MatchAt(t, i + n, pat, k + 1)
            [] item.t = "plus" ->
                 \E n \in 1..RunLength(t, i, item.s) : MatchAt(t, i + n, pat, k + 1)
            [] item.t = "opt" ->
                 \E n \in 0..(IF RunLength(t, i, item.s) > 0 THEN 1 ELSE 0) :
                    MatchAt(t, i + n, pat, k + 1)
            [] item.t = "wb" ->
                 WordBoundaryAt(t, i) /\ MatchAt(t, i, pat, k + 1)

\* RegExp.prototype.test (and match() !== null) for one alternative
TestPattern(t, pat) == \E i \in 1..(Len(t) + 1) : MatchAt(t, i, pat, 1)

\* RegExp.prototype.test for a pattern a|b|c, its alternatives in order; with
\* the i flag the text is compared in lower case (the patterns are written so)
Test(t, alternatives) ==
  \E a \in 1..Len(alternatives) : TestPattern(t, alternatives[a])

TestIgnoreCase(t, alternatives) == Test(ToLowerCase(t), alternatives)

\* new RegExp(`\\b${literal}\\b`, 'i').test(t)
TestWord(t, literal) ==
  TestIgnoreCase(t, << <<WordBoundary, Lit(ToLowerCase(literal)), WordBoundary>> >>)

-----------------------------------------------------------------------------
(* validateFile *)

allowedTypes == <<".pdf">>
maxSize == 10 * 1024 * 1024

ErrInvalidType == "Invalid file type. Please upload one of: .pdf"
ErrTooLarge == "File size exceeds 10MB limit"
ErrEmptyFile == "Empty file detected"

\* The size rules are tested before the extension rule.
ValidateFileSizeFirst(file) ==
  LET fileExt == ToLowerCase(file.name)
      hasValidExtension == \E k \in 1..Len(allowedTypes) : EndsWith(fileExt, allowedTypes[k])
  IN IF file.size > maxSize THEN [isValid |-> FALSE, error |-> ErrTooLarge]
     ELSE IF file.size = 0 THEN [isValid |-> FALSE, error |-> ErrEmptyFile]
     ELSE IF ~hasValidExtension THEN [isValid |-> FALSE, error |-> ErrInvalidType]
     ELSE [isValid |-> TRUE, error |-> Null]

\* The size limit is exclusive.
ValidateFileExclusiveLimit(file) ==
  LET fileExt == ToLowerCase(file.name)
      hasValidExtension == \E k \in 1..Len(allowedTypes) : EndsWith(fileExt, allowedTypes[k])
  IN IF ~hasValidExtension THEN [isValid |-> FALSE, error |-> ErrInvalidType]
     ELSE IF file.size >= maxSize THEN [isValid |-> FALSE, error |-> ErrTooLarge]
     ELSE IF file.size = 0 THEN [isValid |-> FALSE, error |-> ErrEmptyFile]
     ELSE [isValid |-> TRUE, error |-> Null]

ValidateFile(file) ==
  LET fileExt == ToLowerCase(file.name)
      hasValidExtension == \E k \in 1..Len(allowedTypes) : EndsWith(fileExt, allowedTypes[k])
  IN IF ~hasValidExtension THEN [isValid |-> FALSE, error |-> ErrInvalidType]
     ELSE IF file.size > maxSize THEN [isValid |-> FALSE, error |-> ErrTooLarge]
     ELSE IF file.size = 0 THEN [isValid |-> FALSE, error |-> ErrEmptyFile]
     ELSE [isValid |-> TRUE, error |-> Null]

\* File names and sizes a user can hand to the validator.
FileNames ==
  { "resume.pdf", "RESUME.PDF", "cv.Pdf", "my resume.pDF", ".pdf",
    "resume.doc", "resume.docx", "resume.pdf.txt", "resumepdf", "pdf",
    "resume.pd", "resume.pdf ", "" }
FileSizes == { 0, 1, 2048, maxSize - 1, maxSize, maxSize + 1, 3 * maxSize }

ValidateFileCall ==
  /\ vPc = "call"
  /\ vResult' = ValidateFile(vFile)
  /\ vPc' = "returned"
  /\ UNCHANGED <<vFile, notValidate>>

NextValidate == ValidateFileCall

-----------------------------------------------------------------------------
(* predictFromText *)

RECURSIVE CollapseRange(_, _, _)
\* text.replace(/\s+/g, ' ') over the characters lo..hi: a character that is
\* not whitespace stays, the first character of a whitespace run becomes one
\* space, the rest of the run disappears.
CollapseRange(s, lo, hi) ==
  IF lo > hi THEN ""
  ELSE IF lo = hi
       THEN IF ~IsSpace(Ch(s, lo)) THEN Ch(s, lo)
            ELSE IF lo = 1 \/ ~IsSpace(Ch(s, lo - 1)) THEN " "
            ELSE ""
  ELSE LET mid == (lo + hi) \div 2
       IN CollapseRange(s, lo, mid) \o CollapseRange(s, mid + 1, hi)

CollapseWhitespace(s) == CollapseRange(s, 1, Len(s))

\* String.prototype.trim
Trim(s) ==
  LET inked == {i \in 1..Len(s) : ~IsSpace(Ch(s, i))}
  IN IF inked = {} THEN ""
     ELSE LET first == CHOOSE i \in inked : \A j \in 1..(i - 1) : IsSpace(Ch(s, j))
              last == CHOOSE i \in inked : \A j \in (i + 1)..Len(s) : IsSpace(Ch(s, j))
          IN SubSeq(s, first, last)

\* The text is trimmed and its whitespace runs are kept as they are.
CleanedTextTrimOnly(text) == Trim(text)

\* text.replace(/\s+/g, ' ').trim()
CleanedText(text) == Trim(CollapseWhitespace(text))

MinPredictLength == 50

PredictPrefix == "Text prediction failed: "
ErrTooShort == "Please provide at least 50 characters of resume text."
ErrFetch == "Failed to fetch"
ErrJson == "Unexpected end of JSON input"

Thrown(message) == [kind |-> "error", message |-> message]
Returned(value) == [kind |-> "value", value |-> value]

\* What the prediction service can answer.  A success body is the JSON the
\* server sent, its numbers as they are written: a PredictionResponse, or a
\* body that lacks predicted_role.
PredictionBodies ==
  { [predicted_role |-> "Software Engineer", confidence |-> "0.87", processed_text_length |-> "60"],
    [predicted_role |-> Null, confidence |-> Null, processed_text_length |-> Null] }
ErrorStatuses == {"422", "500", "503"}
\* errorData.detail of a failure body: absent, empty, or a message
ErrorDetails == {Null, "", "Model is not loaded"}

\* Line 80..90: the text is cleaned and, when long enough, sent.
PredictCall ==
  /\ pPc = "call"
  /\ LET cleanedText == CleanedText(pText)
     IN IF Len(cleanedText) < MinPredictLength
        THEN /\ pOutcome' = Thrown(PredictPrefix \o ErrTooShort)
             /\ pPc' = "settled"
             /\ UNCHANGED pFetches
        ELSE /\ pFetches' = Append(pFetches, cleanedText)
             /\ pPc' = "awaitFetch"
             /\ UNCHANGED pOutcome
  /\ UNCHANGED <<pText, pResponse, notPredict>>

\* Line 101: response.ok, and response.json() is what the function returns.
PredictResponseOk ==
  /\ pPc = "awaitFetch"
  /\ \E body \in PredictionBodies :
       /\ pResponse' = [kind |-> "ok", body |-> body]
       /\ pOutcome' = Returned(body)
  /\ pPc' = "settled"
  /\ UNCHANGED <<pText, pFetches, notPredict>>

\* Line 101: response.ok, and response.json() rejects.
PredictResponseOkBadJson ==
  /\ pPc = "awaitFetch"
  /\ pResponse' = [kind |-> "okBadJson"]
  /\ pOutcome' = Thrown(PredictPrefix \o ErrJson)
  /\ pPc' = "settled"
  /\ UNCHANGED <<pText, pFetches, notPredict>>

\* A predictFromText that sends the request once more after the first
\* non-success status, and fails after the second.
PredictResponseNotOkRetried ==
  /\ pPc = "awaitFetch"
  /\ \E status \in ErrorStatuses, detail \in ErrorDetails :
       LET errorMessage == "HTTP " \o status \o ": Text prediction failed"
           message == IF detail # Null /\ detail # "" THEN detail ELSE errorMessage
       IN IF Len(pFetches) < 2
          THEN /\ pFetches' = Append(pFetches, pFetches[1])
               /\ UNCHANGED <<pPc, pResponse, pOutcome>>
          ELSE /\ pResponse' = [kind |-> "notOk", status |-> status, detail |-> detail]
               /\ pOutcome' = Thrown(PredictPrefix \o message)
               /\ pPc' = "settled"
               /\ UNCHANGED pFetches
  /\ UNCHANGED <<pText, notPredict>>

\* Line 92..99: a non-success status; errorData.detail || errorMessage.
PredictResponseNotOk ==
  /\ pPc = "awaitFetch"
  /\ \E status \in ErrorStatuses, detail \in ErrorDetails :
       LET errorMessage == "HTTP " \o status \o ": Text prediction failed"
           message == IF detail # Null /\ detail # "" THEN detail ELSE errorMessage
       IN /\ pResponse' = [kind |-> "notOk", status |-> status, detail |-> detail]
          /\ pOutcome' = Thrown(PredictPrefix \o message)
  /\ pPc' = "settled"
  /\ UNCHANGED <<pText, pFetches, notPredict>>

\* Line 86: fetch rejects (network failure).
PredictFetchFails ==
  /\ pPc = "awaitFetch"
  /\ pResponse' = [kind |-> "rejected"]
  /\ pOutcome' = Thrown(PredictPrefix \o ErrFetch)
  /\ pPc' = "settled"
  /\ UNCHANGED <<pText, pFetches, notPredict>>

\* Texts around the floor of 50 characters, with whitespace in every place.
PredictTexts ==
  { "", "   ", " \n\t ",
    Rep("x", 49), Rep("x", 50), Rep("x", 51),
    "  " \o Rep("x", 49) \o "\n\n", "\t" \o Rep("x", 50) \o " ",
    Rep("word ", 10), Rep("word ", 10) \o "x", Rep("word  ", 10),
    Rep("ab  \n", 12) \o "abc", Rep("ab  \n", 17),
    Rep("a    ", 12), Rep("a ", 25), Rep("a ", 25) \o "b",
    "a" \o Rep(" ", 198) \o "a",
    Rep("x", 25) \o Rep(" ", 30) \o Rep("y", 23),
    Rep("x", 25) \o Rep("\n", 2) \o Rep("y", 24),
    "Python developer, 5 years. Built REST APIs and data pipelines." }

NextPredict ==
  \/ PredictCall
  \/ PredictResponseOk
  \/ PredictResponseOkBadJson
  \/ PredictResponseNotOk
  \/ PredictFetchFails

-----------------------------------------------------------------------------
(* The heuristic analysis: helpers of section 4 of screenerAPI *)

\* Array.prototype.join
RECURSIVE Join(_, _)
Join(seq, sep) ==
  IF Len(seq) = 0 THEN ""
  ELSE IF Len(seq) = 1 THEN seq[1]
  ELSE seq[1] \o sep \o Join(Tail(seq), sep)

\* Array.prototype.slice(0, n)
Take(seq, n) == SubSeq(seq, 1, IF Len(seq) < n THEN Len(seq) ELSE n)

RECURSIVE DedupFrom(_, _)
DedupFrom(seq, i) ==
  IF i > Len(seq) THEN <<>>
  ELSE (IF \E j \in 1..(i - 1) : seq[j] = seq[i] THEN <<>> ELSE <<seq[i]>>)
         \o DedupFrom(seq, i + 1)

\* Duplicates are kept.
DedupNot(seq) == seq

\* [...new Set(seq)]: the first occurrence of every element, in order
Dedup(seq) == DedupFrom(seq, 1)

\* Array.prototype.includes
Has(seq, x) == \E i \in 1..Len(seq) : seq[i] = x

\* roleSkillMap, in the order of its keys (the order Object.entries walks)
roleSkillMap ==
  << <<"data", <<"python", "r", "sql", "pandas", "numpy", "scikit-learn", "tensorflow",
                 "pytorch", "tableau", "power bi", "spark", "hadoop", "statistics",
                 "machine learning">> >>,
     <<"software", <<"javascript", "python", "java", "react", "node.js", "git", "api",
                     "database", "testing", "agile", "docker", "kubernetes">> >>,
     <<"devops", <<"docker", "kubernetes", "aws", "azure", "jenkins", "ci/cd", "terraform",
                   "ansible", "linux", "monitoring", "automation">> >>,
     <<"frontend", <<"javascript", "react", "vue", "angular", "html", "css", "typescript",
                     "webpack", "sass", "responsive design">> >>,
     <<"backend", <<"node.js", "python", "java", "api", "database", "mongodb", "postgresql",
                    "redis", "microservices">> >>,
     <<"mobile", <<"react native", "flutter", "swift", "kotlin", "ios", "android",
                   "mobile development">> >> >>

\* roleSkillMap[key]
SkillsOf(key) == roleSkillMap[CHOOSE k \in 1..Len(roleSkillMap) : roleSkillMap[k][1] = key][2]

\* The last bucket whose name the role contains wins.
GetRoleSpecificSkillsLastMatch(role) ==
  LET roleLower == ToLowerCase(role)
      hits == {k \in 1..Len(roleSkillMap) : Includes(roleLower, roleSkillMap[k][1])}
  IN IF hits # {} THEN roleSkillMap[CHOOSE k \in hits : \A h \in hits : h <= k][2]
     ELSE SkillsOf("software")

\* getRoleSpecificSkills, for a role that is a string
GetRoleSpecificSkills(role) ==
  LET roleLower == ToLowerCase(role)
      hits == {k \in 1..Len(roleSkillMap) : Includes(roleLower, roleSkillMap[k][1])}
  IN IF hits # {} THEN roleSkillMap[Min(hits)][2]
     ELSE SkillsOf("software")

\* findSkillsInText: the skill is escaped, so it is matched as a literal
FindSkillsInText(text, roleSkills) ==
  SelectSeq(roleSkills, LAMBDA skill : TestWord(text, skill))

RxImpact ==
  << <<Plus("\\d"), Lit("%")>>, <<Plus("\\d"), Lit("x")>>, <<Lit("increased")>>,
     <<Lit("improved")>>, <<Lit("reduced")>>, <<Lit("optimized")>> >>
RxLeadVerbs == << <<Lit("lead")>>, <<Lit("manage")>>, <<Lit("mentor")>>, <<Lit("supervise")>> >>
RxDegree == << <<Lit("bachelor")>>, <<Lit("master")>>, <<Lit("phd")>>, <<Lit("certified")>> >>

BaseScore == 50
SkillPoints == 8
SkillCap == 30
ScoreCap == 100

\* The sum is returned as it is.
CalculateContextualScoreNoCap(text, role, skills, experienceLevel) ==
  LET roleSkills == GetRoleSpecificSkills(role)
      skillMatch == Len(SelectSeq(skills, LAMBDA skill : Has(roleSkills, skill)))
  IN BaseScore
       + (IF skillMatch * SkillPoints < SkillCap THEN skillMatch * SkillPoints ELSE SkillCap)
       + (IF experienceLevel = "Senior-level" THEN 15
          ELSE IF experienceLevel = "Mid-level" THEN 10 ELSE 5)
       + (IF Test(text, RxImpact) THEN 10 ELSE 0)
       + (IF Test(text, RxLeadVerbs) THEN 8 ELSE 0)
       + (IF Test(text, RxDegree) THEN 5 ELSE 0)

\* calculateContextualScore; the patterns have no i flag, and the text it is
\* given is the lower-cased one
CalculateContextualScore(text, role, skills, experienceLevel) ==
  LET roleSkills == GetRoleSpecificSkills(role)
      skillMatch == Len(SelectSeq(skills, LAMBDA skill : Has(roleSkills, skill)))
      score == BaseScore
                 + (IF skillMatch * SkillPoints < SkillCap THEN skillMatch * SkillPoints
                    ELSE SkillCap)
                 + (IF experienceLevel = "Senior-level" THEN 15
                    ELSE IF experienceLevel = "Mid-level" THEN 10 ELSE 5)
                 + (IF Test(text, RxImpact) THEN 10 ELSE 0)
                 + (IF Test(text, RxLeadVerbs) THEN 8 ELSE 0)
                 + (IF Test(text, RxDegree) THEN 5 ELSE 0)
  IN IF score < ScoreCap THEN score ELSE ScoreCap

RxAchievements ==
  << <<Plus("\\d"), Lit("%")>>, <<Plus("\\d"), Lit("x")>>, <<Lit("$"), Plus("\\d")>>,
     <<Lit("increased"), Star("[^\\n]"), Plus("\\d")>>,
     <<Lit("improved"), Star("[^\\n]"), Plus("\\d")>> >>

\* generateContextualStrengths
GenerateContextualStrengths(text, skills, nlpResults, role) ==
  LET fromNlp == IF Len(nlpResults.strengths) > 0 THEN Take(nlpResults.strengths, 2) ELSE <<>>
      fromSkills ==
        IF Len(skills) > 0
        THEN << "Demonstrated expertise in key areas like " \o Join(Take(skills, 3), ", ") \o "." >>
        ELSE <<>>
      fromLevel ==
        IF nlpResults.experience_level # ""
        THEN << "Profile aligns with an " \o nlpResults.experience_level \o " professional." >>
        ELSE <<>>
      fromAchievements ==
        IF TestIgnoreCase(text, RxAchievements)
        THEN <<"Strong track record of delivering measurable achievements and results.">>
        ELSE <<>>
      strengths == fromNlp \o fromSkills \o fromLevel \o fromAchievements
  IN Take(SelectSeq(Dedup(strengths), LAMBDA str : str # "" /\ Len(str) > 15), 4)

\* The patterns of detectContentElements, one field per line of the source
contentPatterns ==
  [ hasGitHub |->
      << <<Lit("github.com/"), Plus("\\w-")>>, <<Lit("github.io")>>, <<Lit("git."), Plus("\\w-")>>,
         <<Lit("github"), Star("\\s"), Lit(":")>>, <<Lit("github"), Star("\\s"), Lit("/")>> >>,
    hasPortfolio |->
      << <<Lit("portfolio")>>, <<Lit("personal"), Star("\\s"), Lit("website")>>,
         <<Lit("my"), Star("\\s"), Lit("website")>>, <<Lit("website"), Star("\\s"), Lit(":")>> >>,
    hasLinkedIn |->
      << <<Lit("linkedin.com/in/")>>, <<Lit("linkedin"), Star("\\s"), Lit("profile")>> >>,
    hasLiveProjects |->
      << <<Lit("live"), Star("\\s"), Lit("project")>>, <<Lit("deployed")>>, <<Lit("production")>>,
         <<Lit("hosted")>>, <<Lit("demo")>>, <<Lit("url")>>, <<Lit("link")>>, <<Lit("website")>> >>,
    hasQuantifiableResults |->
      << <<Plus("\\d"), Lit("%")>>, <<Plus("\\d"), Lit("+")>>, <<Lit("$"), Plus("\\d,")>>,
         <<Lit("increased"), Plus("\\s"), Lit("by"), Plus("\\s"), Plus("\\d")>>,
         <<Lit("improved"), Plus("\\s"), Lit("by"), Plus("\\s"), Plus("\\d")>>,
         <<Lit("reduced"), Plus("\\s"), Lit("by"), Plus("\\s"), Plus("\\d")>>,
         <<Lit("optimized"), Plus("\\s"), Lit("by"), Plus("\\s"), Plus("\\d")>>,
         <<Plus("\\d"), Lit("x"), Plus("\\s")>> >>,
    hasProjectExperience |->
      << <<Lit("project"), Opt("s"), Star("\\s"), Lit(":")>>, <<Lit("built"), Plus("\\s")>>,
         <<Lit("developed"), Plus("\\s")>>, <<Lit("created"), Plus("\\s")>>,
         <<Lit("implemented"), Plus("\\s")>>, <<Lit("designed"), Plus("\\s")>>, <<Lit("launched")>> >>,
    hasLeadership |->
      << <<Lit("lead"), Plus("\\s")>>, <<Lit("led"), Plus("\\s")>>,
         <<Lit("manage"), Opt("d"), Plus("\\s")>>, <<Lit("mentor"), Opt("ed"), Plus("\\s")>>,
         <<Lit("supervise"), Opt("d"), Plus("\\s")>>, <<Lit("team"), Star("\\s"), Lit("lead")>>,
         <<Lit("project"), Star("\\s"), Lit("manager")>> >>,
    hasCertifications |->
      << <<Lit("certified")>>, <<Lit("certification")>>, <<Lit("certificate")>>,
         <<Lit("aws"), Plus("\\s"), Lit("certified")>>, <<Lit("gcp"), Plus("\\s"), Lit("certified")>> >>,
    hasEducation |->
      << <<Lit("bachelor")>>, <<Lit("master")>>, <<Lit("phd")>>, <<Lit("degree")>>,
         <<Lit("university")>>, <<Lit("college")>>, <<Lit("graduated")>>, <<Lit("education")>>,
         <<Lit("b.s.")>>, <<Lit("m.s.")>> >>,
    hasWorkExperience |->
      << <<Lit("experience")>>, <<Lit("worked"), Plus("\\s"), Lit("at")>>,
         <<Lit("employed"), Plus("\\s"), Lit("at")>>, <<Lit("internship")>>,
         <<Lit("intern"), Plus("\\s"), Lit("at")>>, <<Lit("software"), Plus("\\s"), Lit("engineer")>>,
         <<Lit("data"), Plus("\\s"), Lit("scientist")>> >>,
    hasAPIExperience |->
      << <<WordBoundary, Lit("api"), WordBoundary>>, <<Lit("rest"), Star("\\s"), Lit("api")>>,
         <<Lit("restful")>>, <<Lit("graphql")>>, <<Lit("microservice")>>,
         <<Lit("web"), Star("\\s"), Lit("service")>> >>,
    hasVersionControl |->
      << <<Lit("git"), WordBoundary>>, <<Lit("github")>>, <<Lit("gitlab")>>, <<Lit("bitbucket")>>,
         <<Lit("version"), Star("\\s"), Lit("control")>>, <<Lit("source"), Star("\\s"), Lit("control")>> >>,
    hasTesting |->
      << <<Lit("test")>>, <<Lit("testing")>>, <<Lit("unit"), Star("\\s"), Lit("test")>>,
         <<Lit("integration"), Star("\\s"), Lit("test")>>, <<Lit("tdd")>>, <<Lit("jest")>>,
         <<Lit("pytest")>>, <<Lit("junit")>> >>,
    hasCloudExperience |->
      << <<Lit("aws")>>, <<Lit("azure")>>, <<Lit("gcp")>>, <<Lit("google"), Star("\\s"), Lit("cloud")>>,
         <<Lit("docker")>>, <<Lit("kubernetes")>>, <<Lit("container")>>, <<Lit("ec2")>>,
         <<Lit("s3")>>, <<Lit("lambda")>> >>,
    hasDatabaseExperience |->
      << <<Lit("database")>>, <<Lit("sql")>>, <<Lit("mysql")>>, <<Lit("postgresql")>>,
         <<Lit("mongodb")>>, <<Lit("nosql")>>, <<Lit("redis")>> >>,
    hasMLExperience |->
      << <<Lit("machine"), Star("\\s"), Lit("learning")>>, <<Lit("ml"), WordBoundary>>,
         <<Lit("artificial"), Star("\\s"), Lit("intelligence")>>, <<Lit("ai"), WordBoundary>>,
         <<Lit("deep"), Star("\\s"), Lit("learning")>>, <<Lit("neural"), Star("\\s"), Lit("network")>>,
         <<Lit("nlp")>>, <<Lit("tensorflow")>>, <<Lit("pytorch")>>, <<Lit("scikit-learn")>> >>,
    hasDataViz |->
      << <<Lit("visualization")>>, <<Lit("tableau")>>, <<Lit("power"), Star("\\s"), Lit("bi")>>,
         <<Lit("d3.js")>>, <<Lit("plotly")>>, <<Lit("matplotlib")>>, <<Lit("seaborn")>>,
         <<Lit("dashboard")>> >>,
    hasStatistics |->
      << <<Lit("statistics")>>, <<Lit("statistical")>>, <<Lit("regression")>>, <<Lit("hypothesis")>>,
         <<Lit("a/b"), Star("\\s"), Lit("test")>>, <<Lit("analytics")>> >> ]

\* detectContentElements: every pattern has the i flag and is a fresh literal,
\* so each test starts at the beginning of the text
DetectContentElements(resumeText) ==
  LET t == ToLowerCase(resumeText)
  IN [k \in DOMAIN contentPatterns |-> Test(t, contentPatterns[k])]

Improvement(priority, suggestion, category) ==
  [priority |-> priority, suggestion |-> suggestion, category |-> category]

\* generateTargetedImprovements: the rules in their order, then one
\* improvement per distinct suggestion text, then the first five
GenerateTargetedImprovements(resumeText, role, skills, nlpResults) ==
  LET contentElements == DetectContentElements(resumeText)
      roleLower == ToLowerCase(role)
      improvements ==
        (IF ~contentElements.hasQuantifiableResults
         THEN <<Improvement("High", "Strengthen your impact by adding metrics to your achievements (e.g., \"reduced latency by 30%\", \"increased user engagement by 15%\").", "Impact & Results")>> ELSE <<>>)
        \o (IF ~contentElements.hasGitHub
               /\ (Includes(roleLower, "software") \/ Includes(roleLower, "data"))
            THEN <<Improvement("High", "A strong GitHub profile is essential. Add a link and feature 2-3 well-documented projects.", "Professional Presence")>> ELSE <<>>)
        \o (IF ~contentElements.hasProjectExperience /\ nlpResults.experience_level = "Entry-level"
            THEN <<Improvement("High", "Build and showcase personal projects to demonstrate practical skills beyond coursework.", "Experience")>> ELSE <<>>)
        \o (IF Includes(roleLower, "data") /\ ~contentElements.hasDataViz
            THEN <<Improvement("Medium", "Showcase your data storytelling skills by adding projects with visualizations or dashboards (e.g., using Tableau, Power BI, or Plotly).", "Technical Skills")>> ELSE <<>>)
        \o (IF Includes(roleLower, "software") /\ ~contentElements.hasTesting
            THEN <<Improvement("Medium", "Mention specific testing practices or frameworks used in your projects (e.g., unit tests with Jest, integration testing).", "Technical Skills")>> ELSE <<>>)
      suggestions == Dedup([i \in 1..Len(improvements) |-> improvements[i].suggestion])
      uniqueSuggestions ==
        [u \in 1..Len(suggestions) |->
           improvements[Min({i \in 1..Len(improvements) : improvements[i].suggestion = suggestions[u]})]]
  IN Take(uniqueSuggestions, 5)

\* identifyMissingElements
IdentifyMissingElements(text, role, skills) ==
  LET contentElements == DetectContentElements(text)
      roleLower == ToLowerCase(role)
      missing ==
        (IF ~contentElements.hasQuantifiableResults THEN <<"Quantifiable achievements with metrics">> ELSE <<>>)
        \o (IF ~contentElements.hasProjectExperience THEN <<"Dedicated projects section">> ELSE <<>>)
        \o (IF Includes(roleLower, "software") /\ ~contentElements.hasVersionControl
            THEN <<"Version control (Git/GitHub)">> ELSE <<>>)
        \o (IF Includes(roleLower, "data") /\ ~contentElements.hasMLExperience
            THEN <<"Machine learning project experience">> ELSE <<>>)
  IN Take(Dedup(missing), 4)

\* generateRoleSpecificAdvice
GenerateRoleSpecificAdvice(text, role, skills, experienceLevel) ==
  LET contentElements == DetectContentElements(text)
      roleLower == ToLowerCase(role)
      advice ==
        (IF Includes(roleLower, "data") /\ ~contentElements.hasMLExperience
         THEN <<"Focus on building an end-to-end machine learning project, from data cleaning to model deployment.">> ELSE <<>>)
        \o (IF Includes(roleLower, "software") /\ ~contentElements.hasAPIExperience
            THEN <<"Gain experience with API development (REST or GraphQL) as it is a core skill for most developer roles.">> ELSE <<>>)
        \o (IF experienceLevel = "Entry-level" THEN <<"Contribute to an open-source project to gain collaborative development experience and enhance your GitHub profile.">> ELSE <<>>)
  IN Take(Dedup(advice), 3)

\* Math.round(a / b * 100) for a >= 0, b > 0
RoundPercent(a, b) == (200 * a + b) \div (2 * b)

\* generateContextualInsights
GenerateContextualInsights(nlpResults, role, skills, resumeText) ==
  LET roleSkills == GetRoleSpecificSkills(role)
      matchCount == Len(SelectSeq(skills, LAMBDA sk : Has(roleSkills, sk)))
      insights ==
        (IF nlpResults.experience_level # ""
         THEN << "Your resume appears to be at an " \o nlpResults.experience_level
                   \o " experience level." >>
         ELSE <<>>)
        \o (IF Len(roleSkills) > 0
            THEN << "Your skills show a ~" \o ToString(RoundPercent(matchCount, Len(roleSkills)))
                      \o "% alignment with the key technologies for a " \o role \o " role." >>
            ELSE <<>>)
        \o (IF DetectContentElements(resumeText).hasQuantifiableResults
            THEN <<"Your use of metrics to describe achievements is a strong positive signal to recruiters.">> ELSE <<>>)
  IN Take(Dedup(insights), 3)

\* The report analyzeResumeContextually builds from the NLP results, for a
\* role that is a string (lines 149..168)
ContextualReport(resumeText, predictedRole, nlpResults) ==
  LET text == ToLowerCase(resumeText)
      roleSpecificSkills == GetRoleSpecificSkills(predictedRole)
      detectedSkills == Dedup(nlpResults.skills \o FindSkillsInText(text, roleSpecificSkills))
  IN [ score |-> CalculateContextualScore(text, predictedRole, detectedSkills,
                                          nlpResults.experience_level),
       strengths |-> GenerateContextualStrengths(text, detectedSkills, nlpResults, predictedRole),
       improvements |-> GenerateTargetedImprovements(resumeText, predictedRole, detectedSkills,
                                                     nlpResults),
       missing_elements |-> IdentifyMissingElements(text, predictedRole, detectedSkills),
       role_specific_advice |-> GenerateRoleSpecificAdvice(text, predictedRole, detectedSkills,
                                                           nlpResults.experience_level),
       contextual_insights |-> GenerateContextualInsights(nlpResults, predictedRole,
                                                          detectedSkills, resumeText) ]

\* The report of the catch block of getResumeImprovements (lines 124..135)
FallbackReport ==
  [ score |-> 60,
    strengths |-> <<"Resume submitted for analysis">>,
    improvements |->
      <<Improvement("Medium", "AI analysis is temporarily unavailable. Please try again later.",
                    "System")>>,
    missing_elements |-> <<>>,
    role_specific_advice |-> <<>>,
    contextual_insights |-> <<"Analysis will be available shortly">> ]

-----------------------------------------------------------------------------
(* performNLPAnalysis: what it reads out of the generated texts *)

\* null is taken for a text like any other.
TruthyNullToo(value) == value # ""

\* A value the source tests with if (value): a non-empty string
Truthy(value) == value # Null /\ value # ""

commonSkills ==
  << "python", "java", "javascript", "react", "node", "sql", "aws", "docker", "kubernetes",
     "git", "machine learning", "data analysis", "pandas", "numpy", "scikit-learn",
     "tensorflow", "pytorch", "api", "flask", "streamlit", "power bi", "tableau" >>

\* Lines 187..191: the common skills named by the response or by the resume
ExtractSkills(skillsResponse, text) ==
  LET skillsText == ToLowerCase(skillsResponse)
      lowerText == ToLowerCase(text)
  IN SelectSeq(commonSkills,
               LAMBDA skill : TestWord(skillsText, skill) \/ TestWord(lowerText, skill))

\* Lines 198..205
ClassifyExperience(experienceResponse) ==
  LET expText == ToLowerCase(experienceResponse)
  IN IF Includes(expText, "senior") \/ Includes(expText, "lead") \/ Includes(expText, "manager")
     THEN "Senior-level"
     ELSE IF Includes(expText, "mid") \/ Includes(expText, "intermediate")
     THEN "Mid-level"
     ELSE "Entry-level"

strengthKeywords == <<"strong", "excellent", "experienced", "skilled">>

\* (?:in|with|at)\s+([^.]+) matches at position m of the lower-cased text:
\* the word, one whitespace character and one more character that is no period
PrepositionAt(lower, m) ==
  \E word \in {"in", "with", "at"} :
     /\ HasAt(lower, m, word)
     /\ m + Len(word) + 1 <= Len(lower)
     /\ IsSpace(Ch(lower, m + Len(word)))
     /\ Ch(lower, m + Len(word) + 1) # "."

\* Where .*? can stop after a keyword found at s: the first preposition that
\* matches, with no line break before it
PrepositionsAfter(lower, s, keyword) ==
  {m \in (s + Len(keyword))..Len(lower) :
     /\ PrepositionAt(lower, m)
     /\ \A j \in (s + Len(keyword))..(m - 1) : Ch(lower, j) # "\n"}

\* The end of a run of [^.] that starts at q
EndOfSentence(lower, q) ==
  LET periods == {d \in q..Len(lower) : Ch(lower, d) = "."}
  IN IF periods = {} THEN Len(lower) ELSE Min(periods) - 1

RECURSIVE StrengthMatchesFrom(_, _, _)
\* response.match(/keyword.*?(?:in|with|at)\s+([^.]+)/gi) from position p on:
\* the whole matches, left to right, each search starting after the last match
StrengthMatchesFrom(response, keyword, p) ==
  LET lower == ToLowerCase(response)
      starts == {s \in p..Len(lower) :
                   HasAt(lower, s, keyword) /\ PrepositionsAfter(lower, s, keyword) # {}}
  IN IF starts = {} THEN <<>>
     ELSE LET s == Min(starts)
              m == Min(PrepositionsAfter(lower, s, keyword))
              e == EndOfSentence(lower, m + 2)
          IN <<SubSeq(response, s, e)>> \o StrengthMatchesFrom(response, keyword, e + 1)

RECURSIVE ExtractStrengthsFrom(_, _)
\* Lines 212..223: for each pattern in turn, its first two matches
ExtractStrengthsFrom(response, k) ==
  IF k > Len(strengthKeywords) THEN <<>>
  ELSE Take(StrengthMatchesFrom(response, strengthKeywords[k], 1), 2)
         \o ExtractStrengthsFrom(response, k + 1)

ExtractStrengths(strengthsResponse) == ExtractStrengthsFrom(strengthsResponse, 1)

improvementKeywords ==
  <<"need", "lack", "missing", "should add", "recommend", "suggest", "improve">>

RECURSIVE ExtractSuggestionsFrom(_, _)
\* Lines 230..237: for each keyword in turn, the first match of keyword[^.]*
ExtractSuggestionsFrom(response, k) ==
  IF k > Len(improvementKeywords) THEN <<>>
  ELSE LET lower == ToLowerCase(response)
           keyword == improvementKeywords[k]
           starts == {s \in 1..Len(lower) : HasAt(lower, s, keyword)}
       IN (IF starts = {} THEN <<>>
           ELSE LET s == Min(starts)
                IN <<SubSeq(response, s, EndOfSentence(lower, s + Len(keyword)))>>)
            \o ExtractSuggestionsFrom(response, k + 1)

ExtractSuggestions(gapResponse) == ExtractSuggestionsFrom(gapResponse, 1)

EmptyResults == [skills |-> <<>>, experience_level |-> "", strengths |-> <<>>, suggestions |-> <<>>]

-----------------------------------------------------------------------------
(* callHuggingFaceAPI *)

maxRetries == 2

\* What hfLog records: a request issued at a value of the loop counter, a
\* response or failure received, a delay waited (in milliseconds)
Fetch(n) == [ev |-> "fetch", n |-> n]
Got(what) == [ev |-> what, n |-> 0]
Delay(ms) == [ev |-> "delay", n |-> ms]

\* The loop also runs for attempt = maxRetries.
LoopContinuesInclusive(n) == n <= maxRetries

\* Line 253: attempt < maxRetries
LoopContinues(n) == n < maxRetries

\* Lines 268..275: the value returned for a success body
GeneratedText(data) ==
  IF data.shape = "array" /\ Truthy(data.text) THEN Trim(data.text)
  ELSE IF data.shape = "string" /\ Truthy(data.text) THEN Trim(data.text)
  ELSE Null

\* The success bodies the inference service can send for each of the four
\* prompts: [{generated_text}], a bare string, or anything else
Array(text) == [shape |-> "array", text |-> text]
Bare(text) == [shape |-> "string", text |-> text]
Other == [shape |-> "object", text |-> ""]
OkBodies(prompt) ==
  CASE prompt = "skills" ->
         { Array("Python, SQL and Docker") }
    [] prompt = "experience" ->
         { Array("Senior-level"), Bare(" I would say intermediate\n"), Array("Entry-level") }
    [] prompt = "strengths" ->
         { Array("Strong skills in Python. Strong skills in Python. Excellent at teamwork and experienced with AWS."),
           Bare("Excellent at teamwork. Skilled in code review and testing") }
    [] prompt = "gap" ->
         { Array("You need more projects. Tests are missing."), Other }
\* The first request of a call: the loop is entered with attempt = 0.
StartCall ==
  /\ hfPc' = "fetch"
  /\ attempt' = 0
  /\ hfLog' = <<Fetch(0)>>
  /\ hfResult' = Null

\* The end of one pass of the loop body: attempt++, then the loop test; the
\* next request, or the return null of line 291.
NextIteration(log) ==
  /\ attempt' = attempt + 1
  /\ IF LoopContinues(attempt + 1)
     THEN /\ hfPc' = "fetch"
          /\ hfLog' = Append(log, Fetch(attempt + 1))
          /\ UNCHANGED hfResult
     ELSE /\ hfPc' = "returned"
          /\ hfLog' = log
          /\ hfResult' = Null

\* Lines 268..275: response.ok
HFResponseOk ==
  /\ hfPc = "fetch"
  /\ \E data \in OkBodies(aPc) :
       /\ hfResult' = GeneratedText(data)
       /\ hfLog' = Append(hfLog, Got("ok"))
  /\ hfPc' = "returned"
  /\ UNCHANGED <<attempt, analysisVars, notAnalysis>>

\* Lines 276..278: status 503, the delay of 3000 * (attempt + 1) starts
HFResponse503 ==
  /\ hfPc = "fetch"
  /\ hfLog' = Append(Append(hfLog, Got("503")), Delay(3000 * (attempt + 1)))
  /\ hfPc' = "delay503"
  /\ UNCHANGED <<attempt, hfResult, analysisVars, notAnalysis>>

\* Line 279: the delay is over, continue
HFDelay503Elapsed ==
  /\ hfPc = "delay503"
  /\ NextIteration(hfLog)
  /\ UNCHANGED <<analysisVars, notAnalysis>>

\* Any other status is retried like a 503.
HFResponseErrorRetried ==
  /\ hfPc = "fetch"
  /\ hfLog' = Append(Append(hfLog, Got("http-error")), Delay(3000 * (attempt + 1)))
  /\ hfPc' = "delay503"
  /\ UNCHANGED <<attempt, hfResult, analysisVars, notAnalysis>>

\* Lines 280..283: any other status
HFResponseError ==
  /\ hfPc = "fetch"
  /\ hfLog' = Append(hfLog, Got("http-error"))
  /\ hfPc' = "returned"
  /\ hfResult' = Null
  /\ UNCHANGED <<attempt, analysisVars, notAnalysis>>

\* The delay is waited after every failure, the last one too.
HFFetchThrowsAlwaysWaits ==
  /\ hfPc = "fetch"
  /\ hfPc' = "delayCatch"
  /\ hfLog' = Append(Append(hfLog, Got("throw")), Delay(1500))
  /\ UNCHANGED <<attempt, hfResult, analysisVars, notAnalysis>>

\* Lines 284..288: fetch or response.json() rejects
HFFetchThrows ==
  /\ hfPc = "fetch"
  /\ IF attempt = maxRetries - 1
     THEN /\ hfPc' = "returned"
          /\ hfResult' = Null
          /\ hfLog' = Append(hfLog, Got("throw"))
     ELSE /\ hfPc' = "delayCatch"
          /\ hfLog' = Append(Append(hfLog, Got("throw")), Delay(1500))
          /\ UNCHANGED hfResult
  /\ UNCHANGED <<attempt, analysisVars, notAnalysis>>

\* Line 287: the delay is over, the loop body ends
HFDelayCatchElapsed ==
  /\ hfPc = "delayCatch"
  /\ NextIteration(hfLog)
  /\ UNCHANGED <<analysisVars, notAnalysis>>

-----------------------------------------------------------------------------
(* getResumeImprovements: performNLPAnalysis step by step, then the report *)

\* Lines 118..120, 148, 175..185: the first prompt is sent
GetResumeImprovementsCall ==
  /\ aPc = "call"
  /\ aPc' = "skills"
  /\ analysisResults' = EmptyResults
  /\ StartCall
  /\ UNCHANGED <<aResumeText, aPredictedRole, hfReturns, aReport, aLocals, notAnalysis>>

\* The second call is made while the first one is still in progress.
SkillExtractionNotAwaited ==
  /\ aPc = "skills"
  /\ analysisResults' =
       IF Truthy(hfResult)
       THEN [analysisResults EXCEPT !.skills = ExtractSkills(hfResult, aResumeText)]
       ELSE analysisResults
  /\ hfReturns' = Append(hfReturns, hfResult)
  /\ aPc' = "experience"
  /\ StartCall
  /\ UNCHANGED <<aResumeText, aPredictedRole, aReport, aLocals, notAnalysis>>

\* Lines 185..196
SkillExtraction ==
  /\ aPc = "skills" /\ hfPc = "returned"
  /\ analysisResults' =
       IF Truthy(hfResult)
       THEN [analysisResults EXCEPT !.skills = ExtractSkills(hfResult, aResumeText)]
       ELSE analysisResults
  /\ hfReturns' = Append(hfReturns, hfResult)
  /\ aPc' = "experience"
  /\ StartCall
  /\ UNCHANGED <<aResumeText, aPredictedRole, aReport, aLocals, notAnalysis>>

\* Lines 196..210
ExperienceClassification ==
  /\ aPc = "experience" /\ hfPc = "returned"
  /\ analysisResults' =
       IF Truthy(hfResult)
       THEN [analysisResults EXCEPT !.experience_level = ClassifyExperience(hfResult)]
       ELSE analysisResults
  /\ hfReturns' = Append(hfReturns, hfResult)
  /\ aPc' = "strengths"
  /\ StartCall
  /\ UNCHANGED <<aResumeText, aPredictedRole, aReport, aLocals, notAnalysis>>

\* Lines 210..228
StrengthsAnalysis ==
  /\ aPc = "strengths" /\ hfPc = "returned"
  /\ analysisResults' =
       IF Truthy(hfResult)
       THEN [analysisResults EXCEPT !.strengths = @ \o ExtractStrengths(hfResult)]
       ELSE analysisResults
  /\ hfReturns' = Append(hfReturns, hfResult)
  /\ aPc' = "gap"
  /\ StartCall
  /\ UNCHANGED <<aResumeText, aPredictedRole, aReport, aLocals, notAnalysis>>

\* A role that role.toLowerCase() accepts
IsString(role) == role # Null

\* Lines 228..240: the last response is read and performNLPAnalysis returns
\* its analysisResults; the call of callHuggingFaceAPI is over
GapAnalysis ==
  /\ aPc = "gap" /\ hfPc = "returned"
  /\ analysisResults' =
       IF Truthy(hfResult)
       THEN [analysisResults EXCEPT !.suggestions = @ \o ExtractSuggestions(hfResult)]
       ELSE analysisResults
  /\ hfReturns' = Append(hfReturns, hfResult)
  /\ aPc' = "analyze"
  /\ hfPc' = "idle"
  /\ attempt' = 0
  /\ hfLog' = <<>>
  /\ hfResult' = Null
  /\ UNCHANGED <<aResumeText, aPredictedRole, aReport, aLocals, notAnalysis>>

\* The locals of analyzeResumeContextually the report is built from
Locals(resumeText, predictedRole, nlpResults) ==
  LET roleSpecificSkills == GetRoleSpecificSkills(predictedRole)
  IN [ threw |-> FALSE,
       roleSpecificSkills |-> roleSpecificSkills,
       detectedSkills |->
         Dedup(nlpResults.skills \o FindSkillsInText(ToLowerCase(resumeText), roleSpecificSkills)) ]

\* There is no catch block: the exception of the pipeline reaches the catch
\* block of handleAnalysis, which shows its message.
AnalyzeResumeContextuallyUncaught ==
  /\ aPc = "analyze"
  /\ IF IsString(aPredictedRole)
     THEN /\ aReport' = ContextualReport(aResumeText, aPredictedRole, analysisResults)
          /\ aLocals' = Locals(aResumeText, aPredictedRole, analysisResults)
          /\ aPc' = "returned"
          /\ UNCHANGED <<error, loading, analyzingImprovements>>
     ELSE /\ aLocals' = [threw |-> TRUE, roleSpecificSkills |-> <<>>, detectedSkills |-> <<>>]
          /\ aPc' = "stored"
          /\ error' = "Cannot read properties of undefined (reading 'toLowerCase')"
          /\ loading' = FALSE
          /\ analyzingImprovements' = FALSE
          /\ UNCHANGED aReport
  /\ UNCHANGED <<aResumeText, aPredictedRole, analysisResults, hfReturns, hfVars, uiText, result,
                 confidence, activeTab, aiAnalysis, uploadedFileName, submissions,
                 predictRequests, started, lastEvent, validateVars, predictVars>>

\* Lines 148..168 and 121..135: analyzeResumeContextually resumes with the
\* results and builds the report; a role that is no string makes
\* getRoleSpecificSkills throw at line 308, and the catch block of
\* getResumeImprovements returns the fallback report
AnalyzeResumeContextually ==
  /\ aPc = "analyze"
  /\ aReport' =
       IF IsString(aPredictedRole)
       THEN ContextualReport(aResumeText, aPredictedRole, analysisResults)
       ELSE FallbackReport
  /\ aLocals' =
       IF IsString(aPredictedRole)
       THEN Locals(aResumeText, aPredictedRole, analysisResults)
       ELSE [threw |-> TRUE, roleSpecificSkills |-> <<>>, detectedSkills |-> <<>>]
  /\ aPc' = "returned"
  /\ UNCHANGED <<aResumeText, aPredictedRole, analysisResults, hfReturns, hfVars, notAnalysis>>

\* The submissions in flight are a bag: one of them less, one of them more
Without(subs, sub) == subs (-) SetToBag({sub})
With(subs, sub) == subs (+) SetToBag({sub})

Submission(kind, pc, resumeText, role) ==
  [kind |-> kind, pc |-> pc, resumeText |-> resumeText, role |-> role]

\* Lines 53..54 and 59..62 of ResumeForm: handleAnalysis, which awaited
\* getResumeImprovements, stores what it resolved to and runs its finally block
SetAiAnalysis ==
  /\ aPc = "returned"
  /\ \E sub \in BagToSet(submissions) :
       /\ sub.pc = "improve"
       /\ submissions' = Without(submissions, sub)
  /\ aiAnalysis' = aReport
  /\ analyzingImprovements' = FALSE
  /\ loading' = FALSE
  /\ aPc' = "stored"
  /\ UNCHANGED <<aResumeText, aPredictedRole, analysisResults, hfReturns, aReport, aLocals, hfVars,
                 uiText, result, confidence, error, activeTab, uploadedFileName,
                 predictRequests, started, lastEvent, validateVars, predictVars>>

\* The resume texts getResumeImprovements is applied to
TextImpactLed == "increased revenue by 25% and led a team of 5"
TextRich ==
  "Senior engineer. Managed Python, Java, React and Docker projects; improved latency 3x. Bachelor degree. github.com/jo"
TextPlain == "I am a hard working person looking for a job"
TextData ==
  "Data analyst: SQL, pandas, Tableau dashboards, machine learning models. Led A/B tests"
TextUpper ==
  "BUILT REST API WITH NODE.JS; TESTING WITH JEST. GIT, KUBERNETES ON AWS. REDUCED COST BY 40 PERCENT"

\* The calls of getResumeImprovements: a text and the role predicted for it.
\* A role of Null is a prediction response that came without predicted_role.
AnalysisInputs ==
  { [text |-> TextImpactLed, role |-> "Software Engineer"],
    [text |-> TextImpactLed, role |-> Null],
    [text |-> TextRich, role |-> "Software Engineer"],
    [text |-> TextRich, role |-> "Software Data Engineer"],
    [text |-> TextRich, role |-> "BACKEND/FRONTEND DEV"],
    [text |-> TextPlain, role |-> "HR Manager"],
    [text |-> TextPlain, role |-> "Mobile App Developer"],
    [text |-> TextData, role |-> "Senior Data Scientist"],
    [text |-> TextData, role |-> "Frontend Developer"],
    [text |-> TextUpper, role |-> "DevOps Engineer"],
    [text |-> TextUpper, role |-> "Backend Developer"] }

NextAnalysis ==
  \/ GetResumeImprovementsCall
  \/ HFResponseOk
  \/ HFResponse503
  \/ HFDelay503Elapsed
  \/ HFResponseError
  \/ HFFetchThrows
  \/ HFDelayCatchElapsed
  \/ SkillExtraction
  \/ ExperienceClassification
  \/ StrengthsAnalysis
  \/ GapAnalysis
  \/ AnalyzeResumeContextually
  \/ SetAiAnalysis

-----------------------------------------------------------------------------
(* ResumeForm *)

MaxSubmissions == 2
MinSubmitLength == 200

\* The text is measured as it is typed, whitespace at its ends included.
HandleTextSubmitAcceptsUntrimmed(t) == t # "" /\ ~(Len(t) < MinSubmitLength)

\* Line 67: !text.trim() || text.trim().length < 200 makes the handler return
HandleTextSubmitAccepts(t) == Trim(t) # "" /\ ~(Len(Trim(t)) < MinSubmitLength)

\* Line 208: the disabled attribute of the submit button
SubmitDisabled == loading \/ Len(Trim(uiText)) < MinSubmitLength

\* What the user can have in the textarea
UiTexts ==
  { "", " " \o Rep("a", 199) \o "\n", Rep("a", 200), "a" \o Rep(" ", 198) \o "a" }

\* What the user can drop: acceptedFiles, empty or with one file
DroppedFiles ==
  { <<>>, <<[name |-> "resume.pdf", size |-> 2048]>>, <<[name |-> "resume.docx", size |-> 2048]>> }

\* What extractTextFromFile can resolve to: the text of the pages
ExtractedTexts == { Rep("word ", 40) \o "\n", "\n" }
ErrExtract == "Could not read the PDF file. It might be corrupted or protected."

\* The messages predictFromText can fail with once its request is out
PredictFailures ==
  { PredictPrefix \o ErrFetch, PredictPrefix \o "HTTP 500: Text prediction failed" }

\* A report of the heuristic pipeline
PipelineReport == ContextualReport(TextImpactLed, "Software Engineer", EmptyResults)

\* What getResumeImprovements can resolve to for a role
ReportsFor(role) == IF IsString(role) THEN {PipelineReport} ELSE {FallbackReport}

\* getResumeImprovements is called at once, not after the prediction.
HandleAnalysisUnordered(resumeText, kind, others) ==
  /\ aiAnalysis' = Null
  /\ result' = Null
  /\ confidence' = Null
  /\ error' = Null
  /\ loading' = TRUE
  /\ UNCHANGED analyzingImprovements
  /\ predictRequests' = Append(predictRequests, CleanedText(resumeText))
  /\ submissions' = With(others, Submission(kind, "improve", resumeText, Null))

\* Lines 38..63, up to the first await that waits: the hooks are reset and
\* predictFromText is called; a text it finds too short rejects without a
\* request, and the catch and finally blocks run before any other handler
HandleAnalysis(resumeText, kind, others) ==
  /\ aiAnalysis' = Null
  /\ result' = Null
  /\ confidence' = Null
  /\ IF Len(CleanedText(resumeText)) < MinPredictLength
     THEN /\ error' = PredictPrefix \o ErrTooShort
          /\ analyzingImprovements' = FALSE
          /\ loading' = FALSE
          /\ submissions' = others
          /\ UNCHANGED predictRequests
     ELSE /\ error' = Null
          /\ loading' = TRUE
          /\ UNCHANGED analyzingImprovements
          /\ predictRequests' = Append(predictRequests, CleanedText(resumeText))
          /\ submissions' = With(others, Submission(kind, "predict", resumeText, Null))

\* Line 194: onChange of the textarea, which the text tab shows
SetText ==
  /\ activeTab = "text"
  /\ \E t \in UiTexts : uiText' = t
  /\ lastEvent' = "input"
  /\ UNCHANGED <<result, confidence, loading, analyzingImprovements, error, activeTab, aiAnalysis,
                 uploadedFileName, submissions, predictRequests, started, notUi>>

\* Lines 160, 171: the tab buttons
SetActiveTab ==
  /\ \E tab \in {"text", "file"} : activeTab' = tab
  /\ lastEvent' = "input"
  /\ UNCHANGED <<uiText, result, confidence, loading, analyzingImprovements, error, aiAnalysis,
                 uploadedFileName, submissions, predictRequests, started, notUi>>

\* Lines 65..69: the submit event of the form, which the text tab shows.  A
\* text that passes line 67 is submitted with the button, which line 208
\* disables while loading is set; a text that does not pass has the handler
\* return whatever way the event came
HandleTextSubmit ==
  /\ activeTab = "text"
  /\ lastEvent' = "handleTextSubmit"
  /\ IF HandleTextSubmitAccepts(uiText)
     THEN /\ ~loading
          /\ started < MaxSubmissions
          /\ started' = started + 1
          /\ HandleAnalysis(uiText, "text", submissions)
     ELSE UNCHANGED <<result, confidence, loading, analyzingImprovements, error, aiAnalysis,
                      submissions, predictRequests, started>>
  /\ UNCHANGED <<uiText, activeTab, uploadedFileName, notUi>>

\* Lines 72..92: a drop on the dropzone, which the file tab shows, up to the
\* await of extractTextFromFile
OnDrop ==
  /\ activeTab = "file"
  /\ lastEvent' = "onDrop"
  /\ \E acceptedFiles \in DroppedFiles :
       IF Len(acceptedFiles) = 0
       THEN UNCHANGED <<loading, error, aiAnalysis, uploadedFileName, submissions, started>>
       ELSE IF ~ValidateFile(acceptedFiles[1]).isValid
       THEN /\ error' = ValidateFile(acceptedFiles[1]).error
            /\ uploadedFileName' = ""
            /\ UNCHANGED <<loading, aiAnalysis, submissions, started>>
       ELSE /\ started < MaxSubmissions
            /\ started' = started + 1
            /\ uploadedFileName' = acceptedFiles[1].name
            /\ loading' = TRUE
            /\ error' = Null
            /\ aiAnalysis' = Null
            /\ submissions' = With(submissions, Submission("file", "extract", "", Null))
  /\ UNCHANGED <<uiText, result, confidence, analyzingImprovements, activeTab, predictRequests,
                 notUi>>

\* Lines 92..95: the text of the file is there, handleAnalysis is called
ExtractionResolves ==
  /\ \E sub \in BagToSet(submissions) :
       /\ sub.pc = "extract"
       /\ \E extractedText \in ExtractedTexts :
            HandleAnalysis(extractedText, "file", Without(submissions, sub))
  /\ lastEvent' = "settled"
  /\ UNCHANGED <<uiText, activeTab, uploadedFileName, started, notUi>>

\* Lines 97..103: extractTextFromFile rejects
ExtractionRejects ==
  /\ \E sub \in BagToSet(submissions) :
       /\ sub.pc = "extract"
       /\ submissions' = Without(submissions, sub)
  /\ error' = ErrExtract
  /\ uploadedFileName' = ""
  /\ loading' = FALSE
  /\ lastEvent' = "settled"
  /\ UNCHANGED <<uiText, result, confidence, analyzingImprovements, activeTab, aiAnalysis,
                 predictRequests, started, notUi>>

\* Lines 46..52: the prediction is there, getResumeImprovements is called
PredictionResolves ==
  /\ \E sub \in BagToSet(submissions) :
       /\ sub.pc = "predict"
       /\ \E body \in PredictionBodies :
            /\ result' = body.predicted_role
            /\ confidence' = body.confidence
            /\ submissions' =
                 With(Without(submissions, sub),
                      Submission(sub.kind, "improve", sub.resumeText, body.predicted_role))
  /\ analyzingImprovements' = TRUE
  /\ lastEvent' = "settled"
  /\ UNCHANGED <<uiText, loading, error, activeTab, aiAnalysis, uploadedFileName, predictRequests,
                 started, notUi>>

\* The rejection is caught and nothing is shown.
PredictionRejectsUnseen ==
  /\ \E sub \in BagToSet(submissions) :
       /\ sub.pc = "predict"
       /\ submissions' = Without(submissions, sub)
  /\ analyzingImprovements' = FALSE
  /\ loading' = FALSE
  /\ lastEvent' = "settled"
  /\ UNCHANGED <<uiText, result, confidence, error, activeTab, aiAnalysis, uploadedFileName,
                 predictRequests, started, notUi>>

\* Lines 56..62 (and 102 for a file): predictFromText rejects
PredictionRejects ==
  /\ \E sub \in BagToSet(submissions) :
       /\ sub.pc = "predict"
       /\ submissions' = Without(submissions, sub)
  /\ \E message \in PredictFailures : error' = message
  /\ analyzingImprovements' = FALSE
  /\ loading' = FALSE
  /\ lastEvent' = "settled"
  /\ UNCHANGED <<uiText, result, confidence, activeTab, aiAnalysis, uploadedFileName,
                 predictRequests, started, notUi>>

\* Lines 53, 59..62 (and 102 for a file): the report is there
ImprovementsResolve ==
  /\ \E sub \in BagToSet(submissions) :
       /\ sub.pc = "improve"
       /\ \E report \in ReportsFor(sub.role) : aiAnalysis' = report
       /\ submissions' = Without(submissions, sub)
  /\ analyzingImprovements' = FALSE
  /\ loading' = FALSE
  /\ lastEvent' = "settled"
  /\ UNCHANGED <<uiText, result, confidence, error, activeTab, uploadedFileName, predictRequests,
                 started, notUi>>

Next ==
  \/ SetText
  \/ SetActiveTab
  \/ HandleTextSubmit
  \/ OnDrop
  \/ ExtractionResolves
  \/ ExtractionRejects
  \/ PredictionResolves
  \/ PredictionRejects
  \/ ImprovementsResolve

-----------------------------------------------------------------------------
(* Specifications *)

\* The form as it is mounted
Init ==
  /\ uiText = ""
  /\ result = Null
  /\ confidence = Null
  /\ loading = FALSE
  /\ analyzingImprovements = FALSE
  /\ error = Null
  /\ activeTab = "text"
  /\ aiAnalysis = Null
  /\ uploadedFileName = ""
  /\ submissions = EmptyBag
  /\ predictRequests = <<>>
  /\ started = 0
  /\ lastEvent = "mount"
  /\ vFile = [name |-> "", size |-> 0]
  /\ vPc = "idle"
  /\ vResult = Null
  /\ pText = ""
  /\ pPc = "idle"
  /\ pFetches = <<>>
  /\ pOutcome = Null
  /\ pResponse = [kind |-> "pending"]
  /\ aResumeText = ""
  /\ aPredictedRole = Null
  /\ aPc = "idle"
  /\ analysisResults = EmptyResults
  /\ hfReturns = <<>>
  /\ aReport = Null
  /\ aLocals = Null
  /\ hfPc = "idle"
  /\ attempt = 0
  /\ hfLog = <<>>
  /\ hfResult = Null

Spec == Init /\ [][Next]_vars

\* validateFile applied to one file, drawn from FileNames x FileSizes
InitValidateFile ==
  /\ vFile \in [name : FileNames, size : FileSizes]
  /\ vPc = "call"
  /\ vResult = Null
  /\ pText = ""
  /\ pPc = "idle"
  /\ pFetches = <<>>
  /\ pOutcome = Null
  /\ pResponse = [kind |-> "pending"]
  /\ aResumeText = ""
  /\ aPredictedRole = Null
  /\ aPc = "idle"
  /\ analysisResults = EmptyResults
  /\ hfReturns = <<>>
  /\ aReport = Null
  /\ aLocals = Null
  /\ hfPc = "idle"
  /\ attempt = 0
  /\ hfLog = <<>>
  /\ hfResult = Null
  /\ uiText = ""
  /\ result = Null
  /\ confidence = Null
  /\ loading = FALSE
  /\ analyzingImprovements = FALSE
  /\ error = Null
  /\ activeTab = "text"
  /\ aiAnalysis = Null
  /\ uploadedFileName = ""
  /\ submissions = EmptyBag
  /\ predictRequests = <<>>
  /\ started = 0
  /\ lastEvent = "mount"

SpecValidateFile == InitValidateFile /\ [][NextValidate]_vars

\* predictFromText applied to one text, drawn from PredictTexts
InitPredictFromText ==
  /\ pText \in PredictTexts
  /\ pPc = "call"
  /\ pFetches = <<>>
  /\ pOutcome = Null
  /\ pResponse = [kind |-> "pending"]
  /\ vFile = [name |-> "", size |-> 0]
  /\ vPc = "idle"
  /\ vResult = Null
  /\ aResumeText = ""
  /\ aPredictedRole = Null
  /\ aPc = "idle"
  /\ analysisResults = EmptyResults
  /\ hfReturns = <<>>
  /\ aReport = Null
  /\ aLocals = Null
  /\ hfPc = "idle"
  /\ attempt = 0
  /\ hfLog = <<>>
  /\ hfResult = Null
  /\ uiText = ""
  /\ result = Null
  /\ confidence = Null
  /\ loading = FALSE
  /\ analyzingImprovements = FALSE
  /\ error = Null
  /\ activeTab = "text"
  /\ aiAnalysis = Null
  /\ uploadedFileName = ""
  /\ submissions = EmptyBag
  /\ predictRequests = <<>>
  /\ started = 0
  /\ lastEvent = "mount"

SpecPredictFromText == InitPredictFromText /\ [][NextPredict]_vars

\* getResumeImprovements applied to one text and one role, called by
\* handleAnalysis at line 52: the hooks are as lines 39..51 have set them
InitAnalysis ==
  /\ \E input \in AnalysisInputs :
       /\ aResumeText = input.text
       /\ aPredictedRole = input.role
  /\ aPc = "call"
  /\ analysisResults = EmptyResults
  /\ hfReturns = <<>>
  /\ aReport = Null
  /\ aLocals = Null
  /\ hfPc = "idle"
  /\ attempt = 0
  /\ hfLog = <<>>
  /\ hfResult = Null
  /\ vFile = [name |-> "", size |-> 0]
  /\ vPc = "idle"
  /\ vResult = Null
  /\ pText = ""
  /\ pPc = "idle"
  /\ pFetches = <<>>
  /\ pOutcome = Null
  /\ pResponse = [kind |-> "pending"]
  /\ uiText = ""
  /\ result = aPredictedRole
  /\ confidence = (IF aPredictedRole = Null THEN Null ELSE "0.87")
  /\ loading = TRUE
  /\ analyzingImprovements = TRUE
  /\ error = Null
  /\ activeTab = "text"
  /\ aiAnalysis = Null
  /\ uploadedFileName = ""
  /\ submissions = SetToBag({Submission("text", "improve", aResumeText, aPredictedRole)})
  /\ predictRequests = <<>>
  /\ started = 1
  /\ lastEvent = "mount"

SpecAnalysis == InitAnalysis /\ [][NextAnalysis]_vars

-----------------------------------------------------------------------------
(* One submission from the handler to its end: the form, predictFromText,
   getResumeImprovements and callHuggingFaceAPI together *)

\* Lines 92..95 and 38..47 of ResumeForm: the text of the file is there,
\* handleAnalysis resets the hooks and calls predictFromText with it
ExtractTextResolves ==
  /\ \E sub \in BagToSet(submissions) :
       /\ sub.pc = "extract"
       /\ \E extractedText \in ExtractedTexts \cup {TextRich} :
            /\ submissions' =
                 With(Without(submissions, sub), Submission("file", "predict", extractedText, Null))
            /\ pText' = extractedText
  /\ pPc' = "call"
  /\ loading' = TRUE
  /\ error' = Null
  /\ aiAnalysis' = Null
  /\ result' = Null
  /\ confidence' = Null
  /\ lastEvent' = "settled"
  /\ UNCHANGED <<uiText, analyzingImprovements, activeTab, uploadedFileName, predictRequests,
                 started, pFetches, pResponse, pOutcome, validateVars, analysisVars, hfVars>>

\* The finally blocks are missing: a failed prediction leaves the flags set.
PredictFromTextSettlesNoFinally ==
  /\ pPc = "settled"
  /\ \E sub \in BagToSet(submissions) :
       /\ sub.pc = "predict"
       /\ IF pOutcome.kind = "value"
          THEN /\ result' = pOutcome.value.predicted_role
               /\ confidence' = pOutcome.value.confidence
               /\ analyzingImprovements' = TRUE
               /\ aResumeText' = sub.resumeText
               /\ aPredictedRole' = pOutcome.value.predicted_role
               /\ aPc' = "call"
               /\ submissions' =
                    With(Without(submissions, sub),
                         Submission(sub.kind, "improve", sub.resumeText,
                                    pOutcome.value.predicted_role))
               /\ UNCHANGED <<error, loading>>
          ELSE /\ error' = pOutcome.message
               /\ submissions' = Without(submissions, sub)
               /\ UNCHANGED <<result, confidence, aResumeText, aPredictedRole, aPc,
                              analyzingImprovements, loading>>
  /\ lastEvent' = "settled"
  /\ UNCHANGED <<uiText, activeTab, aiAnalysis, uploadedFileName, predictRequests, started,
                 analysisResults, hfReturns, aReport, aLocals, hfVars, validateVars, predictVars>>

\* Lines 47..62 of ResumeForm (and 102 for a file): the await of
\* predictFromText is over.  A response is stored and getResumeImprovements
\* is called with the text and the role; an error is caught and shown
PredictFromTextSettles ==
  /\ pPc = "settled"
  /\ \E sub \in BagToSet(submissions) :
       /\ sub.pc = "predict"
       /\ IF pOutcome.kind = "value"
          THEN /\ result' = pOutcome.value.predicted_role
               /\ confidence' = pOutcome.value.confidence
               /\ analyzingImprovements' = TRUE
               /\ aResumeText' = sub.resumeText
               /\ aPredictedRole' = pOutcome.value.predicted_role
               /\ aPc' = "call"
               /\ submissions' =
                    With(Without(submissions, sub),
                         Submission(sub.kind, "improve", sub.resumeText,
                                    pOutcome.value.predicted_role))
               /\ UNCHANGED <<error, loading>>
          ELSE /\ error' = pOutcome.message
               /\ analyzingImprovements' = FALSE
               /\ loading' = FALSE
               /\ submissions' = Without(submissions, sub)
               /\ UNCHANGED <<result, confidence, aResumeText, aPredictedRole, aPc>>
  /\ lastEvent' = "settled"
  /\ UNCHANGED <<uiText, activeTab, aiAnalysis, uploadedFileName, predictRequests, started,
                 analysisResults, hfReturns, aReport, aLocals, hfVars, validateVars, predictVars>>

\* The form right after a handler has started a submission: handleTextSubmit
\* with a text it accepts (lines 65..68 and 38..47), or onDrop with a valid
\* file (lines 72..92)
InitSubmission ==
  /\ \E kind \in {"text", "file"}, t \in {u \in UiTexts : HandleTextSubmitAccepts(u)} :
       LET resumeText == IF kind = "text" THEN t ELSE ""
       IN /\ activeTab = kind
          /\ uiText = resumeText
          /\ pText = resumeText
          /\ pPc = (IF kind = "text" THEN "call" ELSE "idle")
          /\ uploadedFileName = (IF kind = "text" THEN "" ELSE "resume.pdf")
          /\ lastEvent = (IF kind = "text" THEN "handleTextSubmit" ELSE "onDrop")
          /\ submissions =
               SetToBag({Submission(kind, IF kind = "text" THEN "predict" ELSE "extract",
                                    resumeText, Null)})
  /\ started = 1
  /\ loading = TRUE
  /\ analyzingImprovements = FALSE
  /\ error = Null
  /\ result = Null
  /\ confidence = Null
  /\ aiAnalysis = Null
  /\ predictRequests = <<>>
  /\ pFetches = <<>>
  /\ pOutcome = Null
  /\ pResponse = [kind |-> "pending"]
  /\ aResumeText = ""
  /\ aPredictedRole = Null
  /\ aPc = "idle"
  /\ analysisResults = EmptyResults
  /\ hfReturns = <<>>
  /\ aReport = Null
  /\ aLocals = Null
  /\ hfPc = "idle"
  /\ attempt = 0
  /\ hfLog = <<>>
  /\ hfResult = Null
  /\ vFile = [name |-> "", size |-> 0]
  /\ vPc = "idle"
  /\ vResult = Null

NextSubmission ==
  \/ ExtractTextResolves
  \/ ExtractionRejects
  \/ PredictCall
  \/ PredictResponseOk
  \/ PredictResponseOkBadJson
  \/ PredictResponseNotOk
  \/ PredictFetchFails
  \/ PredictFromTextSettles
  \/ GetResumeImprovementsCall
  \/ HFResponseOk
  \/ HFResponse503
  \/ HFDelay503Elapsed
  \/ HFResponseError
  \/ HFFetchThrows
  \/ HFDelayCatchElapsed
  \/ SkillExtraction
  \/ ExperienceClassification
  \/ StrengthsAnalysis
  \/ GapAnalysis
  \/ AnalyzeResumeContextually
  \/ SetAiAnalysis

\* Where the submission stands: every step of NextSubmission changes it
position == <<submissions, pPc, aPc, hfPc, attempt, hfLog>>

\* Every file read, every request and every timer completes, and the event
\* loop runs every continuation: a step that can be taken is taken
SpecSubmission == InitSubmission /\ [][NextSubmission]_vars /\ WF_position(NextSubmission)

-----------------------------------------------------------------------------
(* validateFile: C3, C4 *)

\* The name ends in ".pdf" in some mix of cases, read off its last four characters.
NameEndsInPdf(name) ==
  LET n == Len(name)
  IN /\ n >= 4
     /\ Ch(name, n - 3) = "."
     /\ Ch(name, n - 2) \in {"p", "P"}
     /\ Ch(name, n - 1) \in {"d", "D"}
     /\ Ch(name, n) \in {"f", "F"}

\* C3: a file whose name does not end in .pdf (case-insensitively) is invalid
\* with the invalid-file-type reason, whatever its size.
C3_NonPdfIsInvalidType ==
  (vPc = "returned" /\ ~NameEndsInPdf(vFile.name))
    => (vResult.isValid = FALSE /\ vResult.error = ErrInvalidType)

C3_Witness ==
  /\ vPc = "returned"
  /\ ~NameEndsInPdf(vFile.name)
  /\ vFile.size = 0
  /\ vResult.error = ErrInvalidType

\* C4: a file with a .pdf name is valid exactly when 0 < size <= 10,485,760;
\* 0 bytes gives the empty-file reason, more than 10,485,760 bytes the
\* size-exceeds-limit reason, and exactly 10,485,760 bytes is valid.
C4_PdfValidIffSizeInRange ==
  (vPc = "returned" /\ NameEndsInPdf(vFile.name))
    => /\ vResult.isValid = (0 < vFile.size /\ vFile.size <= 10485760)
       /\ (vFile.size = 0 => vResult.error = ErrEmptyFile)
       /\ (vFile.size > 10485760 => vResult.error = ErrTooLarge)
       /\ (vFile.size = 10485760 => (vResult.isValid /\ vResult.error = Null))

C4_Witness ==
  /\ vPc = "returned"
  /\ NameEndsInPdf(vFile.name)
  /\ vFile.size = 10485760
  /\ vResult.isValid

-----------------------------------------------------------------------------
(* predictFromText: C2 *)

\* The length of the text once its whitespace runs are collapsed and it is
\* trimmed, counted on the text itself: its characters that are not
\* whitespace, plus one for every whitespace run that lies between two of them.
NormalizedLength(s) ==
  LET inked == {i \in 1..Len(s) : ~IsSpace(Ch(s, i))}
      innerRuns == {i \in 2..Len(s) :
                      /\ IsSpace(Ch(s, i))
                      /\ ~IsSpace(Ch(s, i - 1))
                      /\ \E j \in inked : j > i}
  IN Cardinality(inked) + Cardinality(innerRuns)

\* C2: a text whose whitespace-normalized length is below 50 makes
\* predictFromText fail with an error, and no request is issued to the
\* prediction endpoint.
C2_ShortTextFailsWithoutRequest ==
  (NormalizedLength(pText) < 50)
    => /\ pFetches = <<>>
       /\ pPc \in {"call", "settled"}
       /\ (pPc = "settled" => pOutcome.kind = "error")

C2_Witness ==
  /\ pPc = "settled"
  /\ Len(pText) >= 50
  /\ NormalizedLength(pText) = 49
  /\ pOutcome = Thrown(PredictPrefix \o ErrTooShort)
  /\ pFetches = <<>>

-----------------------------------------------------------------------------
(* callHuggingFaceAPI: C1 *)

\* The requests and the responses (or failures) in the log of one call
Requests(log) == SelectSeq(log, LAMBDA e : e.ev = "fetch")
Responses(log) == SelectSeq(log, LAMBDA e : e.ev \in {"ok", "503", "http-error", "throw"})
Every503(log) == \A i \in 1..Len(Responses(log)) : Responses(log)[i].ev = "503"

\* C1: a call of callHuggingFaceAPI that receives HTTP 503 on every attempt
\* issues exactly 2 requests and then returns null; no third request is issued.
C1_AllUnavailableTwoRequestsThenNull ==
  Every503(hfLog)
    => /\ Len(Requests(hfLog)) <= 2
       /\ (hfPc = "returned"
             => /\ Len(Requests(hfLog)) = 2
                /\ Len(Responses(hfLog)) = 2
                /\ hfResult = Null)

C1_Witness ==
  /\ hfPc = "returned"
  /\ Len(Responses(hfLog)) = 2
  /\ Every503(hfLog)
  /\ Len(Requests(hfLog)) = 2
  /\ hfResult = Null

-----------------------------------------------------------------------------
(* getResumeImprovements: C5, C6, C7, C8, C9 *)

\* C5: the score of every report getResumeImprovements returns, pipeline
\* result or fallback, is an integer between 0 and 100.
C5_ScoreBetween0And100 ==
  (aPc = "returned") => (aReport.score \in 0..100)

\* The bonuses of the returned report add up to more than 100.
C5_Witness ==
  /\ aPc = "returned"
  /\ ~aLocals.threw
  /\ aResumeText = TextRich
  /\ analysisResults.experience_level = "Senior-level"
  /\ aReport.score = 100

NoDuplicates(seq) == \A i, j \in 1..Len(seq) : i # j => seq[i] # seq[j]
SuggestionTexts(improvements) == [i \in 1..Len(improvements) |-> improvements[i].suggestion]

\* C6: in every report getResumeImprovements returns, no list has a duplicate
\* entry (improvements compared by their suggestion text) and every list
\* respects its cap: strengths 4, improvements 5, missing_elements 4,
\* role_specific_advice 3, contextual_insights 3.
C6_ListsUniqueAndCapped ==
  (aPc = "returned")
    => /\ NoDuplicates(aReport.strengths) /\ Len(aReport.strengths) <= 4
       /\ NoDuplicates(SuggestionTexts(aReport.improvements)) /\ Len(aReport.improvements) <= 5
       /\ NoDuplicates(aReport.missing_elements) /\ Len(aReport.missing_elements) <= 4
       /\ NoDuplicates(aReport.role_specific_advice) /\ Len(aReport.role_specific_advice) <= 3
       /\ NoDuplicates(aReport.contextual_insights) /\ Len(aReport.contextual_insights) <= 3

\* The inference call for strengths returned the same strength twice, and it
\* is once in the report.
C6_Witness ==
  /\ aPc = "returned"
  /\ ~aLocals.threw
  /\ Len(analysisResults.strengths) >= 2
  /\ analysisResults.strengths[1] = analysisResults.strengths[2]
  /\ Len(SelectSeq(aReport.strengths, LAMBDA str : str = analysisResults.strengths[1])) = 1

AllCallsReturnedNull == Len(hfReturns) = 4 /\ \A i \in 1..4 : hfReturns[i] = Null

\* C7: when every call of callHuggingFaceAPI of an analysis returned null,
\* getResumeImprovements (given a role that is a string) returns the report of
\* the heuristic pipeline, not the fallback report, and the NLP results are
\* empty: no skills, no experience level, no strengths, no suggestions.
C7_AllNullStillPipelineReport ==
  (aPc = "returned" /\ AllCallsReturnedNull /\ IsString(aPredictedRole))
    => /\ ~aLocals.threw
       /\ aReport # FallbackReport
       /\ analysisResults.skills = <<>>
       /\ analysisResults.experience_level = ""
       /\ analysisResults.strengths = <<>>
       /\ analysisResults.suggestions = <<>>
       /\ aReport = ContextualReport(aResumeText, aPredictedRole, EmptyResults)

C7_Witness ==
  /\ aPc = "returned"
  /\ AllCallsReturnedNull
  /\ aResumeText = TextRich
  /\ aPredictedRole = "Software Engineer"
  /\ analysisResults = EmptyResults
  /\ aReport.score = 100
  /\ Len(aReport.strengths) > 0
  /\ aReport # FallbackReport

\* The points calculateContextualScore is specified to give for the detected
\* skills found in the software vocabulary and for the experience level, when
\* the text names no skill itself
SkillAndLevelPoints(nlpResults) ==
  LET k == Cardinality({i \in 1..Len(nlpResults.skills) :
                          Has(SkillsOf("software"), nlpResults.skills[i])})
  IN (IF 8 * k < 30 THEN 8 * k ELSE 30)
       + (IF nlpResults.experience_level = "Senior-level" THEN 15
          ELSE IF nlpResults.experience_level = "Mid-level" THEN 10 ELSE 5)

\* C8: for the text "increased revenue by 25% and led a team of 5" and the
\* role "Software Engineer", the score has both the +10 of the quantifiable
\* impact and the +8 of leadership, and hasQuantifiableResults and
\* hasLeadership are both true.
C8_ImpactAndLeadershipBonuses ==
  (aPc = "returned" /\ aResumeText = TextImpactLed /\ aPredictedRole = "Software Engineer")
    => /\ aReport.score = 50 + SkillAndLevelPoints(analysisResults) + 10 + 8
       /\ DetectContentElements(aResumeText).hasQuantifiableResults
       /\ DetectContentElements(aResumeText).hasLeadership

\* The role, lower-cased letter by letter, has the bucket name at some position.
RoleNames(role, key) ==
  \E i \in 1..(Len(role) - Len(key) + 1) :
     \A j \in 1..Len(key) : ToLowerChar(Ch(role, i + j - 1)) = Ch(key, j)

\* The first bucket in the order data, software, devops, frontend, backend,
\* mobile that the role names; software when it names none
FirstBucket(role) ==
  IF RoleNames(role, "data") THEN "data"
  ELSE IF RoleNames(role, "software") THEN "software"
  ELSE IF RoleNames(role, "devops") THEN "devops"
  ELSE IF RoleNames(role, "frontend") THEN "frontend"
  ELSE IF RoleNames(role, "backend") THEN "backend"
  ELSE IF RoleNames(role, "mobile") THEN "mobile"
  ELSE "software"

\* C9: getRoleSpecificSkills gives the vocabulary of the first bucket, in
\* the order data, software, devops, frontend, backend, mobile, whose name is
\* a substring of the lower-cased role, and the software vocabulary when there
\* is none; "Senior Data Scientist" gets the data vocabulary.
C9_FirstBucketInOrder ==
  (aPc = "returned" /\ IsString(aPredictedRole))
    => /\ aLocals.roleSpecificSkills = SkillsOf(FirstBucket(aPredictedRole))
       /\ (aPredictedRole = "Senior Data Scientist"
             => aLocals.roleSpecificSkills = SkillsOf("data"))

\* A role that names two buckets, the later one first
C9_Witness ==
  /\ aPc = "returned"
  /\ aPredictedRole = "BACKEND/FRONTEND DEV"
  /\ aLocals.roleSpecificSkills = SkillsOf("frontend")

-----------------------------------------------------------------------------
(* ResumeForm: C10 *)

\* The length of the text without the whitespace it begins and ends with
TrimmedLength(t) ==
  LET blank(i) == Ch(t, i) \in {" ", "\t", "\n"}
      leading == Cardinality({i \in 1..Len(t) : \A j \in 1..i : blank(j)})
      trailing == Cardinality({i \in 1..Len(t) : \A k \in 0..(Len(t) - i) : blank(Len(t) - k)})
  IN IF leading = Len(t) THEN 0 ELSE Len(t) - leading - trailing

\* C10: a text submission (handleTextSubmit) with a text whose trimmed length
\* is below 200 starts no analysis: no prediction request is issued, no
\* submission is in flight for it, and loading, error, result, confidence and
\* aiAnalysis stay as they are.
C10_ShortTextSubmitStartsNothing ==
  [][ (lastEvent' = "handleTextSubmit" /\ TrimmedLength(uiText) < 200)
        => UNCHANGED <<loading, error, result, confidence, aiAnalysis, analyzingImprovements,
                       predictRequests, submissions>> ]_vars

\* A text of 199 characters once trimmed, long enough for predictFromText,
\* has been submitted and nothing has started.
C10_Witness ==
  /\ lastEvent = "handleTextSubmit"
  /\ TrimmedLength(uiText) = 199
  /\ Len(uiText) > 200
  /\ Len(CleanedText(uiText)) >= 50
  /\ predictRequests = <<>>
  /\ submissions = EmptyBag
  /\ ~loading

-----------------------------------------------------------------------------
(* ResumeForm: C11, C13, C14 *)

\* The number of submissions in flight that wait at a position
InFlightAt(subs, pc) ==
  BagCardinality([sub \in {x \in BagToSet(subs) : x.pc = pc} |-> CopiesIn(sub, subs)])

\* The hook holds null and no report (a report is a record, null is not)
NoReport(hook) == ToString(hook) = ToString(Null)

\* A step in which the prediction of a submission fails after its request:
\* a submission that waited for predictFromText is no longer in flight and
\* none waits for getResumeImprovements in its place
PredictionRejected ==
  \E sub \in BagToSet(submissions) :
     sub.pc = "predict" /\ submissions' = Without(submissions, sub)

\* A step in which predictFromText refuses the text before any request: a
\* submission was started, or the text of a file arrived, and no request and
\* no wait for a prediction came of it
PredictionRefused ==
  /\ predictRequests' = predictRequests
  /\ \/ lastEvent' = "handleTextSubmit" /\ started' = started + 1
     \/ /\ lastEvent' = "settled"
        /\ error' # ErrExtract
        /\ \E sub \in BagToSet(submissions) :
              sub.pc = "extract" /\ submissions' = Without(submissions, sub)

\* C11: when the prediction of a submission fails (the text is refused as too
\* short, or the request fails with a status or at the network), the form
\* shows one error message of predictFromText and is no longer loading, no
\* call of getResumeImprovements (the only place inference requests come
\* from) is started, and the step stores no report.
C11_PredictionFailureAborts ==
  [][ (PredictionRejected \/ PredictionRefused) =>
        /\ error' # Null
        /\ HasAt(error', 1, PredictPrefix)
        /\ ~loading'
        /\ ~analyzingImprovements'
        /\ InFlightAt(submissions', "improve") = InFlightAt(submissions, "improve")
        /\ BagCardinality(submissions') <= BagCardinality(submissions)
        /\ (NoReport(aiAnalysis') \/ ToString(aiAnalysis') = ToString(aiAnalysis)) ]_vars

C11_Witness ==
  /\ lastEvent = "settled"
  /\ error = PredictPrefix \o ErrFetch
  /\ Len(predictRequests) = 1
  /\ submissions = EmptyBag
  /\ aiAnalysis = Null
  /\ result = Null
  /\ ~loading

-----------------------------------------------------------------------------
(* getResumeImprovements: C12 *)

\* The heuristic pipeline raised an exception in this call
PipelineRaised == aPc \in {"returned", "stored"} /\ aLocals.threw

\* What the fallback report is said to be, but for its contextual insights
FixedFallbackBut(report) ==
  /\ report.score = 60
  /\ Len(report.strengths) = 1
  /\ Len(report.improvements) = 1
  /\ report.improvements[1].priority = "Medium"
  /\ report.improvements[1].category = "System"
  /\ report.missing_elements = <<>>
  /\ report.role_specific_advice = <<>>

\* The submission is done and shows the report: no error, nothing loading
DoneWith(report) ==
  /\ error = Null
  /\ ~loading
  /\ ~analyzingImprovements
  /\ ToString(aiAnalysis) = ToString(report)

\* C12 as stated: when the heuristic pipeline raises, getResumeImprovements
\* returns the fallback report with score 60, one strength, one improvement of
\* priority Medium and category "System", and empty missing_elements,
\* role_specific_advice and contextual_insights, and the submission is done
\* without an error.
C12_FallbackHasNoInsights ==
  PipelineRaised =>
    /\ aPc = "stored" => DoneWith(aReport)
    /\ FixedFallbackBut(aReport)
    /\ aReport.contextual_insights = <<>>

\* C12, amended: when the heuristic pipeline raises, getResumeImprovements
\* returns the fallback report with score 60, one strength, one improvement of
\* priority Medium and category "System", empty missing_elements and
\* role_specific_advice and the one contextual insight "Analysis will be
\* available shortly", and the submission is done without an error.
C12_FallbackHasOneInsight ==
  PipelineRaised =>
    /\ aPc = "stored" => DoneWith(aReport)
    /\ FixedFallbackBut(aReport)
    /\ aReport.contextual_insights = <<"Analysis will be available shortly">>

C12_Witness ==
  /\ aPc = "stored"
  /\ aLocals.threw
  /\ aPredictedRole = Null
  /\ Len(hfReturns) = 4
  /\ aiAnalysis.score = 60
  /\ Len(aiAnalysis.contextual_insights) = 1
  /\ error = Null

\* C13: at most one submission is in flight at any time: while a submission
\* started from the form (a text submit or a file drop) has not finished, no
\* second one starts its extraction or prediction.
C13_AtMostOneInFlight == BagCardinality(submissions) <= 1

\* A step issues a prediction request
PredictionRequested == Len(predictRequests') > Len(predictRequests)

\* A step in which the extraction of a file submission completes with a text
\* and the submission goes on to wait for its prediction
ExtractionCompleted ==
  \E sub \in BagToSet(submissions), extractedText \in ExtractedTexts :
     /\ sub.pc = "extract"
     /\ sub.kind = "file"
     /\ submissions' =
          With(Without(submissions, sub), Submission("file", "predict", extractedText, Null))

\* A step in which a text submission is started by the submit event and goes
\* straight to wait for its prediction
TextSubmissionStarted ==
  /\ lastEvent' = "handleTextSubmit"
  /\ submissions' = With(submissions, Submission("text", "predict", uiText, Null))

\* A step in which a prediction response has arrived for a submission that
\* waited for it, its role is stored in the result hook, and the submission
\* goes on to getResumeImprovements with that role
PredictionStored ==
  \E sub \in BagToSet(submissions) :
     /\ sub.pc = "predict"
     /\ submissions' =
          With(Without(submissions, sub), Submission(sub.kind, "improve", sub.resumeText, result'))

\* C14: within a submission the steps come in the order extraction (for a
\* file only), prediction, analysis: a prediction request is issued only when
\* a text submission starts or the extraction of a file has completed with a
\* text; getResumeImprovements (where every inference request comes from) is
\* entered only from a prediction whose response has arrived and whose role
\* is stored; and a text submission is never in extraction.
C14_ExtractionPredictionAnalysisInOrder ==
  /\ [](\A sub \in BagToSet(submissions) : sub.pc = "extract" => sub.kind = "file")
  /\ [][ /\ PredictionRequested => (TextSubmissionStarted \/ ExtractionCompleted)
         /\ InFlightAt(submissions', "predict") > InFlightAt(submissions, "predict")
              => (PredictionRequested /\ (TextSubmissionStarted \/ ExtractionCompleted))
         /\ InFlightAt(submissions', "improve") > InFlightAt(submissions, "improve")
              => PredictionStored ]_vars

C14_Witness ==
  /\ \E sub \in BagToSet(submissions) :
        sub.kind = "file" /\ sub.pc = "improve" /\ sub.role = "Software Engineer"
  /\ result = "Software Engineer"
  /\ Len(predictRequests) = 1
  /\ uploadedFileName = "resume.pdf"
  /\ analyzingImprovements

-----------------------------------------------------------------------------
(* callHuggingFaceAPI: C15, C16, C17, C18, C19 *)

\* The inference requests of the call in progress that have no response or
\* failure yet
Outstanding(log) == Len(Requests(log)) - Len(Responses(log))

\* A step in which performNLPAnalysis calls callHuggingFaceAPI
CallStarted == aPc' # aPc /\ aPc' \in {"skills", "experience", "strengths", "gap"}

\* C15: the inference-client calls of an analysis are sequential: the first
\* request of a call is issued only when the call before it has returned,
\* after all of its requests, responses and delays, and has been counted
\* among the returns; at most one request is outstanding at any time.
C15_InferenceCallsSequential ==
  /\ [](Outstanding(hfLog) \in {0, 1})
  /\ [][ CallStarted =>
           /\ hfLog' = <<Fetch(0)>>
           /\ Outstanding(hfLog) = 0
           /\ hfPc \in {"idle", "returned"}
           /\ Len(hfReturns') = Len(hfReturns) + (IF hfPc = "returned" THEN 1 ELSE 0)
           /\ hfPc = "returned" => hfReturns'[Len(hfReturns')] = hfResult ]_vars

C15_Witness ==
  /\ aPc = "gap"
  /\ Len(hfReturns) = 3
  /\ hfReturns[1] = Null
  /\ hfReturns[2] # Null
  /\ hfLog = <<Fetch(0), Got("throw"), Delay(1500), Fetch(1)>>
  /\ Outstanding(hfLog) = 1

\* C16: when an inference request gets a non-success response other than
\* 503, callHuggingFaceAPI returns null at once: that response is the last
\* entry of the call's log, so no request and no delay follows it, on the
\* first attempt as well as on the second.
C16_OtherStatusReturnsNullAtOnce ==
  \A i \in 1..Len(hfLog) :
     hfLog[i] = Got("http-error")
       => /\ i = Len(hfLog)
          /\ hfLog[i - 1] \in {Fetch(0), Fetch(1)}
          /\ hfPc = "returned"
          /\ hfResult = Null

C16_Witness ==
  /\ hfLog = <<Fetch(0), Got("503"), Delay(3000), Fetch(1), Got("http-error")>>
  /\ hfPc = "returned"
  /\ hfResult = Null

\* C17: when the first request of a call fails at transport level,
\* callHuggingFaceAPI waits one delay of 1500 ms and issues exactly one more
\* request; when that one fails at transport level too it returns null at
\* once, with no further delay or request.
C17_TransportFailureRetriedOnce ==
  (Len(hfLog) >= 2 /\ hfLog[2] = Got("throw"))
    => /\ Len(hfLog) >= 3
       /\ hfLog[3] = Delay(1500)
       /\ Len(hfLog) >= 4 => hfLog[4] = Fetch(1)
       /\ Len(Requests(hfLog)) <= 2
       /\ Len(hfLog) = 3 => hfPc = "delayCatch"
       /\ (Len(hfLog) >= 5 /\ hfLog[5] = Got("throw"))
            => /\ Len(hfLog) = 5
               /\ hfPc = "returned"
               /\ hfResult = Null

C17_Witness ==
  /\ hfLog = <<Fetch(0), Got("throw"), Delay(1500), Fetch(1), Got("throw")>>
  /\ hfPc = "returned"
  /\ hfResult = Null
  /\ aPc = "skills"

\* C18: in the 503 path a delay is waited only between two attempts and it
\* grows with the attempt number: after the 503 of attempt n the client waits
\* 3000 * (n + 1) ms before the next request, the base delay after the first
\* 503, and after the 503 of the last allowed attempt it waits no delay: the
\* log of a call never has a delay after that response.
C18_DelayOnlyBetweenAttempts ==
  \A i \in 3..Len(hfLog) :
     (hfLog[i].ev = "delay" /\ hfLog[i - 1] = Got("503"))
       => /\ hfLog[i].n = 3000 * (hfLog[i - 2].n + 1)
          /\ hfLog[i - 2] # Fetch(maxRetries - 1)
          /\ hfPc = "returned" => i < Len(hfLog)

\* The responses of a call that were a 503 or a transport failure
Failures(log, ev) == SelectSeq(log, LAMBDA e : e.ev = ev)

\* The call gave up after a response of this kind: it has returned and this
\* response is the last it received
GaveUpOn(ev) ==
  /\ hfPc = "returned"
  /\ Len(Responses(hfLog)) > 0
  /\ Responses(hfLog)[Len(Responses(hfLog))].ev = ev

\* C19 as stated: there are two distinct retry budgets.  The attempts allowed
\* when every attempt fails at transport level differ in number from those
\* allowed when every response is 503 (which are maxRetries, C1); a call gives
\* up on a transport failure only when its transport failures alone have used
\* the attempts of that budget, and on a 503 only when its 503 responses alone
\* have: an attempt consumed by one kind does not count against the other.
C19_TwoRetryBudgets ==
  /\ (GaveUpOn("throw") /\ Len(Failures(hfLog, "throw")) = Len(Responses(hfLog)))
       => Len(Requests(hfLog)) # maxRetries
  /\ GaveUpOn("throw") => Len(Failures(hfLog, "503")) = 0
  /\ GaveUpOn("503") => Len(Failures(hfLog, "throw")) = 0

\* C19, amended: there is one retry budget.  A call issues at most maxRetries
\* = 2 requests whatever the responses are; the attempts allowed when every
\* response is 503 and when every attempt fails at transport level are both 2;
\* and an attempt consumed by a 503 leaves no retry for a later transport
\* failure, and conversely: a call gives up on a 503 or a transport failure
\* exactly when its failures of both kinds together are 2.
C19_OneSharedRetryBudget ==
  /\ Len(Requests(hfLog)) <= maxRetries
  /\ \A i \in 1..Len(hfLog) :
        hfLog[i].ev = "fetch" => hfLog[i].n = Len(Responses(SubSeq(hfLog, 1, i)))
  /\ (GaveUpOn("throw") \/ GaveUpOn("503"))
       => /\ Len(Requests(hfLog)) = maxRetries
          /\ Len(Failures(hfLog, "throw")) + Len(Failures(hfLog, "503")) = maxRetries
          /\ hfResult = Null
  /\ (Len(Failures(hfLog, "throw")) + Len(Failures(hfLog, "503")) = maxRetries
        /\ hfPc \notin {"delay503", "delayCatch"})
       => hfPc = "returned"

C19_Witness ==
  /\ hfLog = <<Fetch(0), Got("503"), Delay(3000), Fetch(1), Got("throw")>>
  /\ hfPc = "returned"
  /\ hfResult = Null
  /\ aPc = "experience"

-----------------------------------------------------------------------------
(* calculateContextualScore: C20 *)

\* k: the detected skills (the de-duplicated list of line 152) that are in
\* the vocabulary of the role's bucket
VocabularyMatches ==
  LET vocabulary == SkillsOf(FirstBucket(aPredictedRole))
      detectedSkills == aLocals.detectedSkills
  IN Cardinality({i \in 1..Len(detectedSkills) :
                    \E j \in 1..Len(vocabulary) : vocabulary[j] = detectedSkills[i]})

\* The text has one of the words
HasOneOf(text, words) == \E w \in words : Includes(text, w)

\* The text has a digit right before the character
DigitBefore(text, c) ==
  \E i \in 1..(Len(text) - 1) :
     /\ Ch(text, i) \in {"0", "1", "2", "3", "4", "5", "6", "7", "8", "9"}
     /\ Ch(text, i + 1) = c

\* min(100, 50 + min(8k, 30) + e + 10q + 8l + 5d) for the call in progress,
\* where e is 15, 10 and 5 for Senior-level, Mid-level and Entry-level and
\* the given number for an empty experience level
SpecifiedScore(pointsWhenEmpty) ==
  LET text == ToLowerCase(aResumeText)
      level == analysisResults.experience_level
      k == VocabularyMatches
      skillPoints == IF 8 * k < 30 THEN 8 * k ELSE 30
      e == CASE level = "Senior-level" -> 15
             [] level = "Mid-level" -> 10
             [] level = "Entry-level" -> 5
             [] level = "" -> pointsWhenEmpty
      q == IF DigitBefore(text, "%") \/ DigitBefore(text, "x")
              \/ HasOneOf(text, {"increased", "improved", "reduced", "optimized"})
           THEN 1 ELSE 0
      l == IF HasOneOf(text, {"lead", "manage", "mentor", "supervise"}) THEN 1 ELSE 0
      d == IF HasOneOf(text, {"bachelor", "master", "phd", "certified"}) THEN 1 ELSE 0
      sum == 50 + skillPoints + e + 10 * q + 8 * l + 5 * d
  IN IF sum < 100 THEN sum ELSE 100

\* The report in hand is one of the heuristic pipeline
ScoreComputed == aPc \in {"returned", "stored"} /\ ~aLocals.threw

\* C20 as stated: calculateContextualScore returns
\* min(100, 50 + min(8k, 30) + e + 10q + 8l + 5d), where k is the number of
\* detected skills in the role's vocabulary, e is 15 for Senior-level, 10 for
\* Mid-level, 5 for Entry-level and nothing for an empty experience level,
\* and q, l, d are 1 when the lower-cased text has a quantifiable-impact, a
\* leadership and a degree or certification pattern and 0 otherwise.
C20_NothingAddedForEmptyLevel == ScoreComputed => aReport.score = SpecifiedScore(0)

\* C20, amended: the same, but e is 5 for an empty experience level too: 15
\* for Senior-level, 10 for Mid-level and 5 for every other level.
C20_FiveAddedForEmptyLevel == ScoreComputed => aReport.score = SpecifiedScore(5)

C20_Witness ==
  /\ aPc = "returned"
  /\ aResumeText = TextPlain
  /\ aPredictedRole = "HR Manager"
  /\ analysisResults.experience_level = ""
  /\ analysisResults.skills = <<>>
  /\ aReport.score = 55


-----------------------------------------------------------------------------
(* predictFromText: C22 *)

\* The failure body carries a detail message
HasDetail(response) == response.detail # Null /\ response.detail # ""

\* What the claim lets the promise settle to, given what the fetch settled to
SettledAsSpecified ==
  CASE pResponse.kind = "ok" -> pOutcome = Returned(pResponse.body)
    [] pResponse.kind = "notOk" ->
         /\ pOutcome.kind = "error"
         /\ IF HasDetail(pResponse)
            THEN EndsWith(pOutcome.message, pResponse.detail)
            ELSE /\ Includes(pOutcome.message, "prediction failed")
                 /\ Includes(pOutcome.message, pResponse.status)
    [] OTHER -> pOutcome.kind = "error"

\* C22: for a text of normalized length 50 or more, predictFromText issues
\* exactly one request to the prediction endpoint and never a second one; a
\* non-success status or a network failure makes it fail with an error, which
\* carries the detail message of the failure body when there is one and a
\* generic prediction-failed message otherwise, and a success makes it return
\* the PredictionResult of the response.
C22_OneRequestThenResultOrError ==
  (NormalizedLength(pText) >= 50)
    => /\ Len(pFetches) = (IF pPc = "call" THEN 0 ELSE 1)
       /\ (pPc = "settled") = (pResponse.kind # "pending")
       /\ (pPc = "settled" => SettledAsSpecified)

C22_Witness ==
  /\ pPc = "settled"
  /\ NormalizedLength(pText) = 50
  /\ Len(pText) > 50
  /\ Len(pFetches) = 1
  /\ pResponse.kind = "notOk"
  /\ pResponse.detail = "Model is not loaded"
  /\ pOutcome = Thrown("Text prediction failed: Model is not loaded")


-----------------------------------------------------------------------------
(* ResumeForm: C23, C24, C25 *)

\* The error hook shows the too-short message of the Prediction Client
TooShortShown == error # Null /\ Includes(error, "at least 50 characters")

\* C23: every text that the form accepts for a text submission (trimmed
\* length 200 or more) has a whitespace-normalized length of 50 or more, and
\* the submission it starts does not end in the too-short error.
C23_AcceptedTextPassesLengthCheck ==
  (lastEvent = "handleTextSubmit" /\ TrimmedLength(uiText) >= 200)
    => /\ NormalizedLength(uiText) >= 50
       /\ ~TooShortShown


\* A step in which validateFile refuses the dropped file
FileRefused ==
  /\ lastEvent' = "onDrop"
  /\ submissions' = submissions
  /\ error' \in {ErrInvalidType, ErrTooLarge, ErrEmptyFile}

\* A step in which a file submission ends before its analysis: it waited for
\* the text of the file or for the prediction, and is no longer in flight
FileSubmissionFailed ==
  \E sub \in BagToSet(submissions) :
     /\ sub.kind = "file"
     /\ sub.pc \in {"extract", "predict"}
     /\ submissions' = Without(submissions, sub)

\* C24: whenever a file submission ends with an error message displayed,
\* whether the validation of the file, the extraction of its text or the
\* prediction failed, uploadedFileName is empty afterwards.
C24_FileNameClearedOnError ==
  [][ ((FileRefused \/ FileSubmissionFailed) /\ error' # Null) => uploadedFileName' = "" ]_vars


\* A submission waits for getResumeImprovements and the result hook holds
\* the role its prediction carried
RoleOfAnalyzedHeld ==
  \E sub \in BagToSet(submissions) : sub.pc = "improve" /\ sub.role = result

\* A step in which the report of a submission is stored
ReportStoredFor(sub) ==
  /\ sub.pc = "improve"
  /\ submissions' = Without(submissions, sub)
  /\ ~NoReport(aiAnalysis')

\* C25: in every state that text submissions and file drops can reach, in
\* any order and interleaving, analyzingImprovements is set only while loading
\* is set and while the result hook holds the predicted role of the
\* submission under analysis, and a report is stored only with the predicted
\* role of its own submission in the result hook.
C25_ReportWithRoleWhileLoading ==
  /\ [](analyzingImprovements => (loading /\ RoleOfAnalyzedHeld))
  /\ [][ \A sub \in BagToSet(submissions) : ReportStoredFor(sub) => result' = sub.role ]_vars


-----------------------------------------------------------------------------
(* analyzeResumeContextually: C26 *)

\* The score of the call in progress received the 10 points of the
\* quantifiable-impact pattern: the lower-cased text has a percentage, a
\* multiple or one of the four verbs
QuantifiableBonus ==
  LET text == ToLowerCase(aResumeText)
  IN \/ DigitBefore(text, "%")
     \/ DigitBefore(text, "x")
     \/ HasOneOf(text, {"increased", "improved", "reduced", "optimized"})

\* The report lists quantifiable achievements among the missing elements
MetricsMissing(report) ==
  \E i \in 1..Len(report.missing_elements) :
     report.missing_elements[i] = "Quantifiable achievements with metrics"

\* The report has the High-priority suggestion to add metrics
MetricsSuggested(report) ==
  \E i \in 1..Len(report.improvements) :
     /\ report.improvements[i].priority = "High"
     /\ report.improvements[i].category = "Impact & Results"

\* C26: the fields of one report agree on quantifiable results: when the
\* score received the 10 points of the quantifiable-impact bonus,
\* missing_elements does not contain "Quantifiable achievements with metrics"
\* and improvements does not contain the High-priority add-metrics
\* suggestion; and that suggestion is present exactly when that missing
\* element is.
C26_ReportAgreesOnQuantifiableResults ==
  ScoreComputed =>
    /\ QuantifiableBonus => (~MetricsMissing(aReport) /\ ~MetricsSuggested(aReport))
    /\ MetricsSuggested(aReport) = MetricsMissing(aReport)


-----------------------------------------------------------------------------
(* One submission: C21 *)

\* Done: the role of the prediction and the report are stored, no error
SubmissionDone == error = Null /\ ~NoReport(aiAnalysis) /\ result = aPredictedRole /\ aPc = "stored"

\* Error: a message is stored, and no report
SubmissionFailed == error # Null /\ NoReport(aiAnalysis)

\* The submission has finished
Finished ==
  /\ submissions = EmptyBag
  /\ ~loading
  /\ ~analyzingImprovements
  /\ (SubmissionDone \/ SubmissionFailed)

\* How far the submission is from its end, counted in awaits: the file read,
\* the prediction, the four inference calls and the heuristic analysis
AwaitsLeft ==
  IF submissions = EmptyBag THEN 0
  ELSE LET sub == CHOOSE s \in BagToSet(submissions) : TRUE
       IN CASE sub.pc = "extract" -> 13
            [] sub.pc = "predict" /\ pPc = "call" -> 12
            [] sub.pc = "predict" /\ pPc = "awaitFetch" -> 11
            [] sub.pc = "predict" /\ pPc = "settled" -> 10
            [] sub.pc = "improve" /\ aPc = "call" -> 9
            [] sub.pc = "improve" /\ aPc = "skills" -> 8
            [] sub.pc = "improve" /\ aPc = "experience" -> 7
            [] sub.pc = "improve" /\ aPc = "strengths" -> 6
            [] sub.pc = "improve" /\ aPc = "gap" -> 5
            [] sub.pc = "improve" /\ aPc = "analyze" -> 4
            [] sub.pc = "improve" /\ aPc = "returned" -> 3

\* How far the inference call in progress is from its return: two steps (a
\* response, a delay) for each attempt the loop still allows
AttemptsLeft ==
  IF hfPc \in {"idle", "returned"} THEN 0
  ELSE 2 * (2 - attempt) + (IF hfPc = "fetch" THEN 1 ELSE 0)

\* A number that bounds the steps the submission can still take
StepsLeft == 6 * AwaitsLeft + AttemptsLeft

\* Something the submission waits for can happen: the file read, a response
\* or failure of the prediction request or of an inference request, a timer,
\* or the continuation of a call that has returned.  The parsing of a
\* generated text (lines 210..241) and the heuristic analysis are synchronous
\* code with a value for every input, so they run whenever they are the next
\* thing to do
CanGoOn ==
  \/ ENABLED ExtractionRejects
  \/ ENABLED PredictFetchFails
  \/ ENABLED PredictFromTextSettles
  \/ ENABLED GetResumeImprovementsCall
  \/ ENABLED HFFetchThrows
  \/ ENABLED HFDelay503Elapsed
  \/ ENABLED HFDelayCatchElapsed
  \/ ENABLED SkillExtraction
  \/ ENABLED ExperienceClassification
  \/ ENABLED SetAiAnalysis
  \/ ENABLED PredictCall
  \/ hfPc = "returned" /\ aPc \in {"strengths", "gap"}
  \/ aPc = "analyze"

\* C21: when every file read and every remote request completes, with a
\* response or a failure, a started submission eventually finishes: it is
\* Done (role and report stored) or in Error (message stored), with loading
\* and analyzingImprovements both false, after at most one prediction request
\* and at most 2 requests per inference call.  In the terms of a finite run:
\* a submission that has not finished can always go on, every step brings it
\* nearer to its end by a bounded count, and the requests stay within their
\* bounds; with the steps that can be taken being taken (SpecSubmission) the
\* submission therefore finishes, and it stays finished.
C21_SubmissionFinishes ==
  /\ [](Finished \/ CanGoOn)
  /\ [][StepsLeft' < StepsLeft]_vars
  /\ [](Len(pFetches) <= 1 /\ Len(Requests(hfLog)) <= 2)

C21_Witness ==
  /\ Finished
  /\ SubmissionDone
  /\ uploadedFileName = "resume.pdf"
  /\ Len(pFetches) = 1
  /\ Len(hfReturns) = 4
  /\ hfReturns[1] = Null
  /\ aiAnalysis.score > 60

====
